---- MODULE Spec2Model ----
(***************************************************************************)
(* Model of the name-it-admin panel: the Express API (routes under         *)
(* /api/auth, /api/admin, /api/products, /api/orders), its verifyToken     *)
(* middleware, its dual-path Firestore access (Admin SDK, REST fallback)   *)
(* and the order page of the browser client.                               *)
(*                                                                         *)
(* Firestore and Firebase Auth are the environment.  Every handler is one  *)
(* action; what the environment does to a request (the Admin SDK answers,  *)
(* throws or is not configured; the REST call answers or fails) is an      *)
(* input of the action.                                                    *)
(***************************************************************************)
EXTENDS Integers, Sequences, FiniteSets, TLC

VARIABLES
  products,   \* Firestore collection 'products': id -> document or NoDoc
  orders,     \* Firestore collection 'orders':   id -> document or NoDoc
  accounts,   \* Firebase Auth: the e-mail addresses that have an account
  admin,      \* Firestore collection 'admin':    uid -> document or NoDoc
  resp,       \* the response of the request handled last
  reqs,       \* requests in flight (handlers suspended at an await)
  page        \* the order page of the browser client

vars == <<products, orders, accounts, admin, resp, reqs, page>>

(***************************************************************************)
(* JavaScript values, tagged by their type.                                *)
(***************************************************************************)
JStr(s)  == [str |-> s]
JNum(n)  == [num |-> n]
JBool(b) == [bool |-> b]
JDate(t) == [date |-> t]
JNull    == [null |-> TRUE]
NaN      == [nan |-> TRUE]

IsStr(v)  == "str" \in DOMAIN v
IsNum(v)  == "num" \in DOMAIN v
IsBool(v) == "bool" \in DOMAIN v

\* an object without properties (an empty request body, an empty update)
EmptyObj == [k \in {} |-> JNull]

\* obj[key] !== undefined
Has(obj, key) == key \in DOMAIN obj

\* { ...a, ...b }: the properties of b over those of a
Spread(a, b) == [k \in DOMAIN a \cup DOMAIN b |-> IF k \in DOMAIN b THEN b[k] ELSE a[k]]

\* a missing document
NoDoc == [missing |-> TRUE]

Exists(coll, id) == coll[id] # NoDoc


Undefined == [undefined |-> TRUE]

\* obj.key, undefined when the property is absent
Get(obj, key) == IF key \in DOMAIN obj THEN obj[key] ELSE Undefined

\* JavaScript truthiness of a tagged value
Truthy(v) ==
  IF IsStr(v) THEN v.str # ""
  ELSE IF IsNum(v) THEN v.num # 0
  ELSE IF IsBool(v) THEN v.bool
  ELSE "date" \in DOMAIN v \/ "arr" \in DOMAIN v \/ "obj" \in DOMAIN v

(***************************************************************************)
(* Strings of the model and the string functions the handlers apply.       *)
(***************************************************************************)
\* String.prototype.trim on the strings the model draws
Trim(s) ==
  CASE s = " Mug " -> "Mug"
    [] s = " Ada " -> "Ada"
    [] s = "   "   -> ""
    [] OTHER       -> s

\* the numbers the model's numerals denote
MaxNum == 12

\* the decimal numeral at the start of a string, NaN when there is none
Numerals == [n \in (0 - MaxNum)..MaxNum |-> ToString(n)]
NumeralValue == [s \in {Numerals[n] : n \in DOMAIN Numerals} |->
                   CHOOSE n \in DOMAIN Numerals : Numerals[n] = s]
StrToNum(s) ==
  IF s \in DOMAIN NumeralValue
  THEN JNum(NumeralValue[s])
  ELSE IF s = "12abc" THEN JNum(12) ELSE NaN

\* parseFloat(v) / parseInt(v): the model's numbers are integers
parseFloat(v) == IF IsNum(v) THEN v ELSE IF IsStr(v) THEN StrToNum(v.str) ELSE NaN
parseInt(v) == parseFloat(v)

(***************************************************************************)
(* utils/api-helpers: the two response builders.                           *)
(***************************************************************************)
sendSuccess(data, message, statusCode) ==
  [status |-> statusCode, success |-> TRUE, message |-> message, data |-> data]

sendError(message, statusCode) ==
  [status |-> statusCode, success |-> FALSE, message |-> message]

(***************************************************************************)
(* utils/firestore-rest: the wire format and the four REST calls.          *)
(* A stored document is an object of tagged JavaScript values; Firestore   *)
(* sends and accepts it in its typed wire format.                          *)
(***************************************************************************)
\* One value, as convertToFirestoreFields encodes it.  A number that is not
\* an integer is [dbl |-> n], the number written ToString(n) \o ".5"; an
\* array is [arr |-> sequence], a map [obj |-> fields].  An element of an
\* array that is itself an array is typeof 'object' and goes out as the map
\* of its Object.entries
RECURSIVE ToWire(_)
ToWire(v) ==
  LET entries(a) == [obj |-> [k \in {Numerals[i - 1] : i \in DOMAIN a} |->
                                a[NumeralValue[k] + 1]]]
      element(e) == IF "arr" \in DOMAIN e THEN ToWire(entries(e.arr)) ELSE ToWire(e)
  IN IF IsStr(v) THEN [stringValue |-> v.str]
     ELSE IF IsNum(v) THEN [integerValue |-> ToString(v.num)]
     ELSE IF "dbl" \in DOMAIN v THEN [doubleValue |-> ToString(v.dbl) \o ".5"]
     ELSE IF IsBool(v) THEN [booleanValue |-> v.bool]
     ELSE IF "date" \in DOMAIN v THEN [timestampValue |-> ToString(v.date)]
     ELSE IF "arr" \in DOMAIN v
     THEN [arrayValue |-> [values |-> [i \in DOMAIN v.arr |-> element(v.arr[i])]]]
     ELSE IF "obj" \in DOMAIN v
     THEN [mapValue |-> [fields |-> [k \in DOMAIN v.obj |-> ToWire(v.obj[k])]]]
     ELSE [nullValue |-> TRUE]

convertToFirestoreFields(data) == [k \in DOMAIN data |-> ToWire(data[k])]

\* One value, as convertFirestoreFields decodes it.  An element of an array
\* that is no string, number or boolean stays as it came ([raw |-> wire]);
\* arrayValue.values.map of an arrayValue without values throws
RECURSIVE FromWire(_)
FromWire(w) ==
  LET scalar(x) ==
        IF "stringValue" \in DOMAIN x THEN JStr(x.stringValue)
        ELSE IF "integerValue" \in DOMAIN x THEN StrToNum(x.integerValue)
        ELSE IF "doubleValue" \in DOMAIN x
        THEN [dbl |-> CHOOSE n \in DOMAIN Numerals : Numerals[n] \o ".5" = x.doubleValue]
        ELSE IF "booleanValue" \in DOMAIN x THEN JBool(x.booleanValue)
        ELSE [raw |-> x]
  IN IF DOMAIN w \cap {"stringValue", "integerValue", "doubleValue", "booleanValue"} # {}
     THEN scalar(w)
     ELSE IF "timestampValue" \in DOMAIN w THEN JDate(StrToNum(w.timestampValue).num)
     ELSE IF "nullValue" \in DOMAIN w THEN JNull
     ELSE IF "arrayValue" \in DOMAIN w
     THEN IF "values" \in DOMAIN w.arrayValue
          THEN [arr |-> [i \in DOMAIN w.arrayValue.values |-> scalar(w.arrayValue.values[i])]]
          ELSE [thrown |-> TRUE]
     ELSE LET fields == IF "fields" \in DOMAIN w.mapValue THEN w.mapValue.fields
                        ELSE EmptyObj
              values == [k \in DOMAIN fields |-> FromWire(fields[k])]
          IN IF \E k \in DOMAIN fields : values[k] = [thrown |-> TRUE]
             THEN [thrown |-> TRUE]
             ELSE [obj |-> values]

\* the decoded object, [thrown |-> TRUE] when the decoding throws
convertFirestoreFields(fields) ==
  LET decoded == FromWire([mapValue |-> [fields |-> fields]])
  IN IF decoded = [thrown |-> TRUE] THEN decoded ELSE decoded.obj

\* Firestore's own encoding of a stored value in a REST response: every
\* element of an array in its type, an empty array as arrayValue: {} and an
\* empty map as mapValue: {}
RECURSIVE FirestoreValue(_)
FirestoreValue(v) ==
  IF "arr" \in DOMAIN v
  THEN IF DOMAIN v.arr = {} THEN [arrayValue |-> EmptyObj]
       ELSE [arrayValue |-> [values |-> [i \in DOMAIN v.arr |-> FirestoreValue(v.arr[i])]]]
  ELSE IF "obj" \in DOMAIN v
  THEN IF DOMAIN v.obj = {} THEN [mapValue |-> EmptyObj]
       ELSE [mapValue |-> [fields |-> [k \in DOMAIN v.obj |-> FirestoreValue(v.obj[k])]]]
  ELSE ToWire(v)

FirestoreFields(doc) == [k \in DOMAIN doc |-> FirestoreValue(doc[k])]

\* the value Firestore stores for a value of a request body
RECURSIVE FirestoreStored(_)
FirestoreStored(w) ==
  IF "arrayValue" \in DOMAIN w
  THEN [arr |-> IF "values" \in DOMAIN w.arrayValue
                THEN [i \in DOMAIN w.arrayValue.values |->
                        FirestoreStored(w.arrayValue.values[i])]
                ELSE <<>>]
  ELSE IF "mapValue" \in DOMAIN w
  THEN [obj |-> IF "fields" \in DOMAIN w.mapValue
                THEN [k \in DOMAIN w.mapValue.fields |-> FirestoreStored(w.mapValue.fields[k])]
                ELSE EmptyObj]
  ELSE FromWire(w)

\* GET documents/{collection}/{docId}: the document, NoDoc for null.  The
\* documents the requests of the model read hold no empty array, so the
\* decoding does not throw here
getDocument(coll, docId) ==
  IF ~Exists(coll, docId) \/ DOMAIN coll[docId] = {} THEN NoDoc
  ELSE convertFirestoreFields(FirestoreFields(coll[docId]))

\* GET documents/{collection}: id -> { id, ...fields } of every document
getCollection(coll) ==
  [d \in {i \in DOMAIN coll : Exists(coll, i)} |->
     Spread([id |-> JStr(d)], convertFirestoreFields(FirestoreFields(coll[d])))]

\* createDocument sending no updateMask: the document becomes the fields sent
createDocument_noMask(coll, data, docId) ==
  [coll EXCEPT ![docId] = [k \in DOMAIN data |-> FirestoreStored(ToWire(data[k]))]]

\* PATCH documents/{collection}/{docId}?updateMask.fieldPaths=...: Firestore
\* sets the masked fields and creates the document when there is none
createDocument(coll, data, docId) ==
  LET fields == convertToFirestoreFields(data)
      mask   == DOMAIN fields
      old    == IF Exists(coll, docId) THEN coll[docId] ELSE EmptyObj
      new    == [k \in DOMAIN old \cup mask |->
                   IF k \in mask THEN FirestoreStored(fields[k]) ELSE old[k]]
  IN [coll EXCEPT ![docId] = new]

\* POST documents/{collection}: Firestore stores the document under newId
createDocumentNew(coll, data, newId) ==
  [coll EXCEPT ![newId] = [k \in DOMAIN data |-> FirestoreStored(ToWire(data[k]))]]

\* deleteDocument resolving without the document being deleted
deleteDocument_keeps(coll, docId) == coll

\* DELETE documents/{collection}/{docId}
deleteDocument(coll, docId) == [coll EXCEPT ![docId] = NoDoc]

(***************************************************************************)
(* The Admin SDK calls the routes make.                                    *)
(***************************************************************************)
\* db.collection(c).doc(id).update(updates)
SdkUpdate(coll, docId, updates) == [coll EXCEPT ![docId] = Spread(@, updates)]

\* doc.data() with the id in front, as the routes build it
SdkData(coll, docId) == Spread([id |-> JStr(docId)], coll[docId])

\* what the environment does to the calls of one request
SdkModes  == {"ok", "throws", "throwsLate", "unavailable"}
RestModes == {"ok", "readFails", "writeFails"}

\* the Admin SDK as the request met it
SdkSeen(sdk) ==
  IF sdk = "unavailable" THEN "unavailable"
  ELSE IF sdk = "ok" THEN "ok" ELSE "threw"


\* what one handler run leaves: its response, the collection it wrote and the
\* backends it went through (rest: "unused", "ok" or "failed")
Out(res, docs, sdk, rest) == [res |-> res, docs |-> docs, sdk |-> sdk, rest |-> rest]

(***************************************************************************)
(* routes/products.js                                                      *)
(***************************************************************************)
\* the cap on popular products
MaxPopular == 4

MsgMaxPopular ==
  "Maximum of 4 products can be popular at a time. Please remove a popular product first."

\* popular === true || popular === 'true'
IsTrueFlag(v) == v = JBool(TRUE) \/ v = JStr("true")

\* popularSnapshot.docs.filter(d => d.id !== id).length over where('popular','==',true)
SdkPopularCount(prods, id) ==
  Cardinality({p \in DOMAIN prods :
     Exists(prods, p) /\ Get(prods[p], "popular") = JBool(TRUE) /\ p # id})

\* RestPopularCount with the flag compared to the string 'true'
RestPopularCount_asString(prods, id) ==
  LET allProducts == getCollection(prods)
  IN Cardinality({p \in DOMAIN allProducts :
        Get(allProducts[p], "popular") = JStr("true") /\ allProducts[p].id # JStr(id)})

\* allProducts.filter(p => p.popular === true && p.id !== id).length
RestPopularCount(prods, id) ==
  LET allProducts == getCollection(prods)
  IN Cardinality({p \in DOMAIN allProducts :
        Get(allProducts[p], "popular") = JBool(TRUE) /\ allProducts[p].id # JStr(id)})

\* PATCH /api/products/:id/popular, the REST branch (fallback and direct)
patchPopularRest(prods, id, makePopular, sdkSeen, rest, now) ==
  IF rest = "readFails"
  THEN Out(sendError("Failed to update popular status", 500), prods, sdkSeen, "failed")
  ELSE LET product == getDocument(prods, id) IN
    IF product = NoDoc
    THEN Out(sendError("Product not found", 404), prods, sdkSeen, "ok")
    ELSE IF makePopular /\ RestPopularCount(prods, id) >= MaxPopular
    THEN Out(sendError(MsgMaxPopular, 400), prods, sdkSeen, "ok")
    ELSE IF rest = "writeFails"
    THEN Out(sendError("Failed to update popular status", 500), prods, sdkSeen, "failed")
    ELSE LET updateData == [popular |-> JBool(makePopular), updatedAt |-> JDate(now)]
             after      == createDocument(prods, updateData, id)
         IN Out(sendSuccess(Spread(Spread(product, [id |-> JStr(id)]), SdkData(after, id)),
                            IF makePopular THEN "Product marked as popular"
                                           ELSE "Product removed from popular", 200),
                after, sdkSeen, "ok")

\* PATCH /api/products/:id/popular
patchPopular(prods, id, body, sdk, rest, now) ==
  LET makePopular == IsTrueFlag(Get(body, "popular")) IN
  IF sdk = "unavailable" \/ sdk = "throws"
  THEN patchPopularRest(prods, id, makePopular, SdkSeen(sdk), rest, now)
  ELSE IF ~Exists(prods, id)
  THEN Out(sendError("Product not found", 404), prods, "ok", "unused")
  ELSE IF makePopular /\ SdkPopularCount(prods, id) >= MaxPopular
  THEN Out(sendError(MsgMaxPopular, 400), prods, "ok", "unused")
  ELSE LET after == SdkUpdate(prods, id,
                      [popular |-> JBool(makePopular), updatedAt |-> JDate(now)])
       IN IF sdk = "throwsLate"
          THEN patchPopularRest(after, id, makePopular, "threw", rest, now)
          ELSE Out(sendSuccess(SdkData(after, id),
                               IF makePopular THEN "Product marked as popular"
                                              ELSE "Product removed from popular", 200),
                   after, "ok", "unused")

\* PUT /api/products/:id: the updates object, or the response that ends the
\* request before any Firestore call
putUpdates(body, now) ==
  LET price == parseFloat(Get(body, "price"))
      count == parseInt(Get(body, "count"))
      badPrice == Has(body, "price") /\ (price = NaN \/ price.num <= 0)
      badCount == Has(body, "count") /\ (count = NaN \/ count.num < 0)
      badCategory == Has(body, "category") /\ ~IsStr(body.category)
  IN IF Has(body, "name") /\ ~IsStr(body.name)
     THEN [error |-> sendError("Failed to update product", 500)]
     ELSE IF Has(body, "description") /\ ~IsStr(body.description)
     THEN [error |-> sendError("Failed to update product", 500)]
     ELSE IF badPrice
     THEN [error |-> sendError("Price must be a positive number", 400)]
     ELSE IF badCount
     THEN [error |-> sendError("Count must be a non-negative integer", 400)]
     ELSE IF badCategory
     THEN [error |-> sendError("Failed to update product", 500)]
     ELSE [updates |->
       [k \in (DOMAIN body \cap {"name", "description", "price", "count",
                                 "category", "status", "popular"}) \cup {"updatedAt"} |->
          CASE k = "name"        -> JStr(Trim(body.name.str))
            [] k = "description" -> JStr(Trim(body.description.str))
            [] k = "price"       -> price
            [] k = "count"       -> count
            [] k = "category"    -> JStr(Trim(body.category.str))
            [] k = "status"      -> body.status
            [] k = "popular"     -> JBool(IsTrueFlag(body.popular))
            [] OTHER             -> JDate(now)]]

\* PUT /api/products/:id, the REST branch (fallback and direct)
putProductRest(prods, id, updates, sdkSeen, rest) ==
  IF rest = "readFails"
  THEN Out(sendError("Failed to update product", 500), prods, sdkSeen, "failed")
  ELSE LET product == getDocument(prods, id) IN
    IF product = NoDoc
    THEN Out(sendError("Product not found", 404), prods, sdkSeen, "ok")
    ELSE IF rest = "writeFails"
    THEN Out(sendError("Failed to update product", 500), prods, sdkSeen, "failed")
    ELSE LET after == createDocument(prods, updates, id)
         IN Out(sendSuccess(Spread(product, SdkData(after, id)),
                            "Product updated successfully", 200),
                after, sdkSeen, "ok")

\* PUT /api/products/:id
putProduct(prods, id, body, sdk, rest, now) ==
  LET built == putUpdates(body, now) IN
  IF Has(built, "error")
  THEN Out(built.error, prods, "unused", "unused")
  ELSE IF sdk = "unavailable" \/ sdk = "throws"
  THEN putProductRest(prods, id, built.updates, SdkSeen(sdk), rest)
  ELSE IF ~Exists(prods, id)
  THEN Out(sendError("Product not found", 404), prods, "ok", "unused")
  ELSE LET after == SdkUpdate(prods, id, built.updates)
       IN IF sdk = "throwsLate"
          THEN putProductRest(after, id, built.updates, "threw", rest)
          ELSE Out(sendSuccess(SdkData(after, id), "Product updated successfully", 200),
                   after, "ok", "unused")

\* DELETE /api/products/:id: REST only, the Admin SDK is not tried
deleteProduct(prods, id, rest) ==
  IF rest = "readFails"
  THEN Out(sendError("Failed to delete product", 500), prods, "unused", "failed")
  ELSE IF getDocument(prods, id) = NoDoc
  THEN Out(sendError("Product not found", 404), prods, "unused", "ok")
  ELSE IF rest = "writeFails"
  THEN Out(sendError("Failed to delete product", 500), prods, "unused", "failed")
  ELSE Out(sendSuccess(JNull, "Product deleted successfully", 200),
           deleteDocument(prods, id), "unused", "ok")


\* validateRequiredFields: the required fields that are missing or blank
validateRequiredFields(body, requiredFields) ==
  {f \in requiredFields :
     ~Truthy(Get(body, f)) \/ (IsStr(Get(body, f)) /\ Trim(body[f].str) = "")}

\* POST /api/products.  file: "none", "image" or "other"; upload: "storage"
\* (Firebase Storage took the file), "compressed" (base64 fallback) or "fails"
postProduct(prods, body, file, upload, uid, newId, sdk, rest, now) ==
  LET missing  == validateRequiredFields(body,
                    {"name", "description", "price", "count", "category"})
      priceNum == parseFloat(Get(body, "price"))
      countNum == parseInt(Get(body, "count"))
      productData ==
        [name        |-> JStr(Trim(body.name.str)),
         description |-> JStr(Trim(body.description.str)),
         price       |-> priceNum,
         count       |-> countNum,
         category    |-> JStr(Trim(body.category.str)),
         imageUrl    |-> JStr(IF upload = "storage" THEN "https://storage" ELSE "data:image"),
         status      |-> IF Truthy(Get(body, "status")) THEN body.status ELSE JStr("active"),
         popular     |-> JBool(FALSE),
         createdAt   |-> JDate(now),
         createdBy   |-> JStr(uid)]
  IN IF file = "other"
     THEN \* multer's fileFilter passes the error to the global error handler
          Out(sendError("Only image files are allowed", 500), prods, "unused", "unused")
     ELSE IF missing # {}
     THEN Out(sendError("Missing required fields", 400), prods, "unused", "unused")
     ELSE IF priceNum = NaN \/ priceNum.num <= 0
     THEN Out(sendError("Price must be a positive number", 400), prods, "unused", "unused")
     ELSE IF countNum = NaN \/ countNum.num < 0
     THEN Out(sendError("Count must be a non-negative integer", 400), prods, "unused", "unused")
     ELSE IF file = "none"
     THEN Out(sendError("Product image is required", 400), prods, "unused", "unused")
     ELSE IF upload = "fails"
     THEN Out(sendError("Image is too large.", 400), prods, "unused", "unused")
     ELSE IF sdk = "ok"
     THEN Out(sendSuccess(Spread([id |-> JStr(newId)], productData),
                          "Product created successfully", 201),
              [prods EXCEPT ![newId] = productData], "ok", "unused")
     ELSE IF rest # "ok"
     THEN Out(sendError("Failed to create product", 500), prods, SdkSeen(sdk), "failed")
     ELSE LET after == createDocumentNew(prods, productData, newId)
          IN Out(sendSuccess(SdkData(after, newId), "Product created successfully", 201),
                 after, SdkSeen(sdk), "ok")

(***************************************************************************)
(* The product requests as actions.  resp records the request and what     *)
(* came of it.                                                             *)
(***************************************************************************)
ProductIds == {"p1", "p2", "p3", "p4", "p5"}

NoResp == [op |-> "none"]

Answer(op, id, out) ==
  [op |-> op, id |-> id, res |-> out.res, sdk |-> out.sdk, rest |-> out.rest]

PatchPopular(id, body, sdk, rest, now) ==
  LET out == patchPopular(products, id, body, sdk, rest, now) IN
  /\ products' = out.docs
  /\ resp' = Spread(Answer("patchPopular", id, out),
                    [makePopular |-> IsTrueFlag(Get(body, "popular"))])
  /\ UNCHANGED <<orders, accounts, admin, reqs, page>>

PutProduct(id, body, sdk, rest, now) ==
  LET out == putProduct(products, id, body, sdk, rest, now) IN
  /\ products' = out.docs
  /\ resp' = Spread(Answer("putProduct", id, out), [body |-> body])
  /\ UNCHANGED <<orders, accounts, admin, reqs, page>>

DeleteProduct(id, rest) ==
  LET out == deleteProduct(products, id, rest) IN
  /\ products' = out.docs
  /\ resp' = Answer("deleteProduct", id, out)
  /\ UNCHANGED <<orders, accounts, admin, reqs, page>>

\* Firestore picks the id of a new document: one no document has
PostProduct(newId, body, file, upload, uid, sdk, rest, now) ==
  LET out == postProduct(products, body, file, upload, uid, newId, sdk, rest, now) IN
  /\ ~Exists(products, newId)
  /\ products' = out.docs
  /\ resp' = Spread(Answer("postProduct", newId, out),
                    [body |-> body, file |-> file, uid |-> uid])
  /\ UNCHANGED <<orders, accounts, admin, reqs, page>>

(***************************************************************************)
(* Product requests handled one after another.                             *)
(***************************************************************************)
NoPage == [mode |-> "closed"]

PopularBodies ==
  {[popular |-> JBool(TRUE)], [popular |-> JBool(FALSE)], [popular |-> JStr("true")]}

NewProduct ==
  [name |-> JStr(" Mug "), description |-> JStr("A mug"), price |-> JStr("12"),
   count |-> JStr("3"), category |-> JStr("kitchen")]

\* a product as earlier requests left it
SeedProduct ==
  [name |-> JStr("Mug"), price |-> JNum(12), popular |-> JBool(FALSE),
   createdAt |-> JDate(5), updatedAt |-> JDate(7)]

\* the ids new documents get and deleted documents had
FreshIds == {"p5"}

InitPopular ==
  /\ products = [p \in ProductIds |-> IF p \in FreshIds THEN NoDoc ELSE SeedProduct]
  /\ orders = [o \in {} |-> NoDoc]
  /\ accounts = {}
  /\ admin = [u \in {} |-> NoDoc]
  /\ resp = NoResp
  /\ reqs = <<>>
  /\ page = NoPage

NextPopular ==
  \/ \E id \in ProductIds, body \in PopularBodies, sdk \in SdkModes, rest \in RestModes :
       PatchPopular(id, body, sdk, rest, 7)
  \/ \E id \in ProductIds, body \in PopularBodies, sdk \in {"ok", "unavailable"} :
       PutProduct(id, body, sdk, "ok", 7)
  \/ \E id \in FreshIds, rest \in {"ok", "writeFails"} :
       DeleteProduct(id, rest)
  \/ \E id \in FreshIds, file \in {"image", "other"}, sdk \in {"ok", "throws"} :
       PostProduct(id, NewProduct, file, "storage", "admin1", sdk, "ok", 5)

SpecPopular == InitPopular /\ [][NextPopular]_vars

\* the products that are popular
PopularProducts ==
  {p \in DOMAIN products : Exists(products, p) /\ Get(products[p], "popular") = JBool(TRUE)}

\* C1: after any sequence of product requests, at most 4 products are popular
C1_AtMostFourPopular == Cardinality(PopularProducts) <= 4


\* C2: a PATCH /:id/popular with popular=true on a product, while 4 other
\* products are popular, writes nothing and is answered 400 with the cap's
\* message on the Admin SDK path, the REST fallback and the REST-only path
\* (500 only where a REST call itself failed); popular=false is never
\* answered 400
C2_FifthPopularRejected ==
  [][resp'.op = "patchPopular" /\ Exists(products, resp'.id) =>
       /\ (resp'.makePopular /\ Cardinality(PopularProducts \ {resp'.id}) >= 4) =>
            /\ products' = products
            /\ IF resp'.rest = "failed"
               THEN resp'.res.status = 500
               ELSE resp'.res.status = 400 /\ resp'.res.message = MsgMaxPopular
       /\ ~resp'.makePopular => resp'.res.status # 400]_vars

\* a fifth product was refused on each of the three paths
C2_RejectedOnSdk ==
  /\ resp.op = "patchPopular" /\ resp.makePopular /\ resp.res.status = 400
  /\ Cardinality(PopularProducts \ {resp.id}) >= 4
  /\ Exists(products, resp.id)
  /\ resp.sdk = "ok"


(***************************************************************************)
(* PATCH /:id/popular requests in flight together.  The handler gives up   *)
(* control at each await: after the read of the product, after the count   *)
(* of the popular products, and it writes last.                            *)
(***************************************************************************)
Slots == {"r1", "r2"}

Idle == [pc |-> "idle"]

\* the products two admins toggle at the same time
ContendedIds == {"p4", "p5"}

PatchMessage(makePopular) ==
  IF makePopular THEN "Product marked as popular" ELSE "Product removed from popular"

\* the handler up to its first await: the product is read
PatchPopularBegin(r, id, body, path) ==
  LET found == IF path = "sdk" THEN Exists(products, id)
                               ELSE getDocument(products, id) # NoDoc
      sdk   == IF path = "sdk" THEN "ok" ELSE "unavailable"
      rest  == IF path = "sdk" THEN "unused" ELSE "ok"
  IN /\ reqs[r] = Idle
     /\ IF found
        THEN /\ reqs' = [reqs EXCEPT ![r] = [pc |-> "count", id |-> id, path |-> path,
                                             makePopular |-> IsTrueFlag(Get(body, "popular"))]]
             /\ UNCHANGED resp
        ELSE /\ resp' = Spread(Answer("patchPopular", id,
                                 Out(sendError("Product not found", 404), products, sdk, rest)),
                               [makePopular |-> IsTrueFlag(Get(body, "popular"))])
             /\ UNCHANGED reqs
     /\ UNCHANGED <<products, orders, accounts, admin, page>>

\* the popular products are counted, and the request refused at the cap
PatchPopularCheck(r) ==
  LET q     == reqs[r]
      count == IF q.path = "sdk" THEN SdkPopularCount(products, q.id)
                                 ELSE RestPopularCount(products, q.id)
      sdk   == IF q.path = "sdk" THEN "ok" ELSE "unavailable"
      rest  == IF q.path = "sdk" THEN "unused" ELSE "ok"
  IN /\ q.pc = "count"
     /\ IF q.makePopular /\ count >= MaxPopular
        THEN /\ resp' = Spread(Answer("patchPopular", q.id,
                                 Out(sendError(MsgMaxPopular, 400), products, sdk, rest)),
                               [makePopular |-> q.makePopular])
             /\ reqs' = [reqs EXCEPT ![r] = Idle]
        ELSE /\ reqs' = [reqs EXCEPT ![r].pc = "write"]
             /\ UNCHANGED resp
     /\ UNCHANGED <<products, orders, accounts, admin, page>>

\* the flag is written and the request answered
PatchPopularCommit(r, now) ==
  LET q          == reqs[r]
      updateData == [popular |-> JBool(q.makePopular), updatedAt |-> JDate(now)]
      after      == IF q.path = "sdk" THEN SdkUpdate(products, q.id, updateData)
                                      ELSE createDocument(products, updateData, q.id)
      sdk        == IF q.path = "sdk" THEN "ok" ELSE "unavailable"
      rest       == IF q.path = "sdk" THEN "unused" ELSE "ok"
  IN /\ q.pc = "write"
     /\ products' = after
     /\ resp' = Spread(Answer("patchPopular", q.id,
                         Out(sendSuccess(SdkData(after, q.id), PatchMessage(q.makePopular), 200),
                             after, sdk, rest)),
                       [makePopular |-> q.makePopular])
     /\ reqs' = [reqs EXCEPT ![r] = Idle]
     /\ UNCHANGED <<orders, accounts, admin, page>>

\* three products are popular, as three sequential toggles leave them
InitConc ==
  /\ products = [p \in ProductIds |->
                   IF p \in ContendedIds THEN SeedProduct
                   ELSE Spread(SeedProduct, [popular |-> JBool(TRUE)])]
  /\ orders = [o \in {} |-> NoDoc]
  /\ accounts = {}
  /\ admin = [u \in {} |-> NoDoc]
  /\ resp = NoResp
  /\ reqs = [r \in Slots |-> Idle]
  /\ page = NoPage

NextConc ==
  \/ \E r \in Slots, id \in ContendedIds, path \in {"sdk", "rest"},
        body \in {[popular |-> JBool(TRUE)], [popular |-> JBool(FALSE)]} :
       PatchPopularBegin(r, id, body, path)
  \/ \E r \in Slots : PatchPopularCheck(r)
  \/ \E r \in Slots : PatchPopularCommit(r, 7)

SpecConc == InitConc /\ [][NextConc]_vars

\* C3: with PATCH /:id/popular requests in flight together, the popular
\* products never number more than 4
C3_CapHoldsUnderConcurrency == Cardinality(PopularProducts) <= MaxPopular


(***************************************************************************)
(* middleware/auth.js: verifyToken, and the routes it is mounted on.       *)
(***************************************************************************)
\* The tokens a client may send.  signed: issued and signed by Firebase Auth
\* for this project; parts: the pieces token.split('.') gives; json: the
\* second piece decodes to a JSON object; exp: payload.exp in seconds, 0 for
\* a payload without exp
TokenInfo ==
  [fbValid       |-> [signed |-> TRUE,  parts |-> 3, json |-> TRUE,  sub |-> "u1", email |-> "a@x", exp |-> 11],
   fbExpired     |-> [signed |-> TRUE,  parts |-> 3, json |-> TRUE,  sub |-> "u1", email |-> "a@x", exp |-> 9],
   forged        |-> [signed |-> FALSE, parts |-> 3, json |-> TRUE,  sub |-> "u9", email |-> "e@x", exp |-> 11],
   forgedNoExp   |-> [signed |-> FALSE, parts |-> 3, json |-> TRUE,  sub |-> "u9", email |-> "e@x", exp |-> 0],
   forgedExpired |-> [signed |-> FALSE, parts |-> 3, json |-> TRUE,  sub |-> "u9", email |-> "e@x", exp |-> 9],
   forgedNoSub   |-> [signed |-> FALSE, parts |-> 3, json |-> TRUE,  sub |-> "",   email |-> "e@x", exp |-> 11],
   notJson       |-> [signed |-> FALSE, parts |-> 3, json |-> FALSE, sub |-> "",   email |-> "",    exp |-> 0],
   opaque        |-> [signed |-> FALSE, parts |-> 1, json |-> FALSE, sub |-> "",   email |-> "",    exp |-> 0]]

Tokens == DOMAIN TokenInfo

\* An Authorization header is the sequence of its pieces, 'Bearer ' being one
\* piece wherever it occurs; Undefined is a request without the header
Header(pieces) == [pieces |-> pieces]
Headers ==
  {Undefined, Header(<<>>), Header(<<"Bearer ">>)}
    \cup {Header(<<scheme, t>>) : scheme \in {"Bearer ", "bearer ", "Basic "}, t \in Tokens}

\* authHeader.startsWith('Bearer ')
StartsWithBearer(h) == h # Undefined /\ Len(h.pieces) > 0 /\ h.pieces[1] = "Bearer "

\* authHeader.split('Bearer ')[1] of a header that starts with 'Bearer '
SplitBearer(h) ==
  IF Len(h.pieces) >= 2 /\ h.pieces[2] # "Bearer " THEN h.pieces[2] ELSE ""

\* auth.verifyIdToken(token) resolves: signature, project and expiry are good
verifyIdToken(token, now) == TokenInfo[token].signed /\ TokenInfo[token].exp > now

\* what verifyToken leaves: the 401 it sent, or req.user and the call of next()
Denied(message) == [res |-> sendError(message, 401), next |-> FALSE, user |-> Undefined]
Admitted(uid, email) ==
  [res |-> NoResp, next |-> TRUE, user |-> [uid |-> uid, email |-> email]]

\* authSdk: "ok", "throws" (verifyIdToken rejects whatever the token) or
\* "unavailable" (config.js exports auth = null)
verifyToken(h, authSdk, now) ==
  IF h = Undefined \/ h = Header(<<>>) \/ ~StartsWithBearer(h)
  THEN Denied("No token provided")
  ELSE LET token == SplitBearer(h) IN
    IF token = ""
    THEN Denied("Invalid token format")
    ELSE LET payload == TokenInfo[token] IN
      IF authSdk = "ok" /\ verifyIdToken(token, now)
      THEN Admitted(payload.sub, payload.email)
      ELSE IF payload.parts # 3 \/ ~payload.json
      THEN Denied("Invalid token")
      ELSE IF payload.sub = "" \/ payload.email = ""
      THEN Denied("Invalid token")
      ELSE IF payload.exp # 0 /\ payload.exp < now
      THEN Denied("Token expired")
      ELSE Admitted(payload.sub, payload.email)

\* the routes of the API
Routes ==
  {"POST /api/auth/register", "POST /api/auth/login", "GET /api/auth/me",
   "POST /api/auth/logout", "GET /api/admin/profile", "GET /api/admin/stats",
   "POST /api/admin/avatar", "GET /api/products", "GET /api/products/:id",
   "POST /api/products", "PUT /api/products/:id", "PATCH /api/products/:id/popular",
   "DELETE /api/products/:id", "GET /api/orders/stats", "GET /api/orders",
   "GET /api/orders/:id", "PATCH /api/orders/:id/status", "DELETE /api/orders/:id"}

\* no route mounts verifyToken
UsesVerifyToken_none(route) == FALSE

\* the routes whose chain starts with verifyToken
UsesVerifyToken(route) ==
  route \notin {"POST /api/auth/register", "POST /api/auth/login"}

\* A request reaches a route: the middleware runs, then, if it called
\* next(), the handler (ran).
Request(route, h, authSdk, now) ==
  LET v == IF UsesVerifyToken(route) THEN verifyToken(h, authSdk, now)
           ELSE [res |-> NoResp, next |-> TRUE, user |-> Undefined]
  IN /\ resp' = [op |-> "request", route |-> route, header |-> h, authSdk |-> authSdk,
                 res |-> v.res, ran |-> v.next, user |-> v.user]
     /\ UNCHANGED <<products, orders, accounts, admin, reqs, page>>

InitAuth ==
  /\ products = [p \in {} |-> NoDoc]
  /\ orders = [o \in {} |-> NoDoc]
  /\ accounts = {}
  /\ admin = [u \in {} |-> NoDoc]
  /\ resp = NoResp
  /\ reqs = <<>>
  /\ page = NoPage

NextAuth ==
  \E route \in Routes, h \in Headers, authSdk \in {"ok", "throws", "unavailable"} :
    Request(route, h, authSdk, 10)

SpecAuth == InitAuth /\ [][NextAuth]_vars

\* the routes that serve or change the panel's data or the caller's account
ProtectedRoutes == Routes \ {"POST /api/auth/register", "POST /api/auth/login"}

\* C4: verifyToken admits a request only with a token that Firebase Auth
\* signed; a request with a forged token is answered 401
C4_OnlyFirebaseSignedAdmitted ==
  (resp.op = "request" /\ resp.route \in ProtectedRoutes /\ resp.ran) =>
     /\ StartsWithBearer(resp.header)
     /\ SplitBearer(resp.header) \in Tokens
     /\ TokenInfo[SplitBearer(resp.header)].signed

\* C5: the handler of a protected route runs only after verifyToken accepted
\* a header 'Bearer <token>' with a token in it; with no header, another
\* scheme or an empty token the answer is 401, req.user stays unset and
\* next() is not called
C5_NoHandlerWithoutBearer ==
  (resp.op = "request" /\ resp.route \in ProtectedRoutes) =>
     /\ resp.ran => /\ StartsWithBearer(resp.header)
                    /\ SplitBearer(resp.header) \in Tokens
                    /\ resp.user # Undefined
     /\ (~StartsWithBearer(resp.header) \/ SplitBearer(resp.header) = "") =>
          /\ resp.res = sendError(IF StartsWithBearer(resp.header)
                                  THEN "Invalid token format" ELSE "No token provided", 401)
          /\ ~resp.ran
          /\ resp.user = Undefined

\* a request with another scheme was turned away
C5_BasicSchemeRefused ==
  /\ resp.op = "request" /\ resp.route = "DELETE /api/orders/:id"
  /\ resp.header = Header(<<"Basic ", "fbValid">>)
  /\ resp.res.status = 401 /\ ~resp.ran


(***************************************************************************)
(* routes/auth.js POST /register and routes/admin.js POST /avatar          *)
(***************************************************************************)
\* the uid Firebase Auth gives the account of an e-mail address
UidOf == [e \in {"ada@x.io", "bob@x.io"} |-> IF e = "ada@x.io" THEN "u1" ELSE "u2"]

\* /^[^\s@]+@[^\s@]+\.[^\s@]+$/.test(email)
EmailFormatOk(email) == email \in {"ada@x.io", "bob@x.io"}

\* POST /api/auth/register.  authApi: the signUp call of the Identity
\* Toolkit answers ("ok") or cannot be reached ("fails")
register(accts, adminDocs, body, authApi, sdk, now) ==
  LET missing == validateRequiredFields(body, {"name", "email", "password", "confirmPassword"})
      email   == body.email.str
      same(r) == [res |-> r, accounts |-> accts, admin |-> adminDocs,
                  sdk |-> "unused", rest |-> "unused"]
  IN IF missing # {}
     THEN same(sendError("Missing required fields", 400))
     ELSE IF body.password # body.confirmPassword
     THEN same(sendError("Passwords do not match", 400))
     ELSE IF Len(body.password.str) < 6
     THEN same(sendError("Password must be at least 6 characters", 400))
     ELSE IF ~EmailFormatOk(email)
     THEN same(sendError("Invalid email format", 400))
     ELSE IF authApi = "fails"
     THEN same(sendError("Registration failed. Please try again.", 500))
     ELSE IF email \in accts
     THEN same(sendError("Email already registered", 409))
     ELSE LET localId == UidOf[email]
              profile == [name |-> JStr(Trim(body.name.str)), email |-> JStr(email),
                          uid |-> JStr(localId), createdAt |-> JDate(now),
                          status |-> JStr("active")]
          IN [res |-> sendSuccess([user |-> [uid |-> localId, email |-> email,
                                             name |-> Trim(body.name.str)],
                                   token |-> "fbValid", refreshToken |-> "refresh"],
                                  "Registration successful", 201),
              accounts |-> accts \cup {email},
              admin |-> IF sdk = "ok" THEN [adminDocs EXCEPT ![localId] = profile]
                        ELSE adminDocs,
              sdk |-> SdkSeen(sdk), rest |-> "unused"]

\* POST /api/admin/avatar for the signed-in admin uid.  With the Admin SDK
\* not configured, storage is null as db is
uploadAvatar(adminDocs, uid, file, sdk, now) ==
  IF file = "none"
  THEN Out(sendError("No file uploaded", 400), adminDocs, "unused", "unused")
  ELSE IF sdk # "ok"
  THEN Out(sendError("Failed to upload avatar", 500), adminDocs, SdkSeen(sdk), "unused")
  ELSE LET avatarUrl == "https://storage/admin-avatars"
           old       == IF Exists(adminDocs, uid) THEN adminDocs[uid] ELSE EmptyObj
           merged    == Spread(old, [avatarUrl |-> JStr(avatarUrl), updatedAt |-> JDate(now)])
       IN Out(sendSuccess([avatarUrl |-> avatarUrl], "Avatar uploaded successfully", 200),
              [adminDocs EXCEPT ![uid] = merged], "ok", "unused")

Register(body, authApi, sdk, now) ==
  LET out == register(accounts, admin, body, authApi, sdk, now) IN
  /\ accounts' = out.accounts
  /\ admin' = out.admin
  /\ resp' = [op |-> "register", body |-> body, res |-> out.res,
              sdk |-> out.sdk, rest |-> out.rest]
  /\ UNCHANGED <<products, orders, reqs, page>>

UploadAvatar(uid, file, sdk, now) ==
  LET out == uploadAvatar(admin, uid, file, sdk, now) IN
  /\ admin' = out.docs
  /\ resp' = Answer("uploadAvatar", uid, out)
  /\ UNCHANGED <<products, orders, accounts, reqs, page>>

RegisterBody(name, email, password, confirmPassword) ==
  [name |-> JStr(name), email |-> JStr(email), password |-> JStr(password),
   confirmPassword |-> JStr(confirmPassword)]

RegisterBodies ==
  {RegisterBody(" Ada ", "ada@x.io", "secret1", "secret1"),
   RegisterBody("Bob", "bob@x.io", "secret2", "secret2"),
   RegisterBody("Bob", "bob@x.io", "secret2", "secret3"),
   RegisterBody("Bob", "bob@x.io", "abc", "abc"),
   RegisterBody("Bob", "bob at x", "secret2", "secret2"),
   RegisterBody("   ", "bob@x.io", "secret2", "secret2"),
   [email |-> JStr("bob@x.io"), password |-> JStr("secret2")]}

InitAccount ==
  /\ products = [p \in {} |-> NoDoc]
  /\ orders = [o \in {} |-> NoDoc]
  /\ accounts = {}
  /\ admin = [u \in {"u1", "u2"} |-> NoDoc]
  /\ resp = NoResp
  /\ reqs = <<>>
  /\ page = NoPage

NextAccount ==
  \/ \E body \in RegisterBodies, authApi \in {"ok", "fails"},
        sdk \in {"ok", "throws", "unavailable"} :
       Register(body, authApi, sdk, 5)
  \/ \E uid \in {"u1", "u2"}, file \in {"none", "image"},
        sdk \in {"ok", "throws", "unavailable"} :
       UploadAvatar(uid, file, sdk, 7)

SpecAccount == InitAccount /\ [][NextAccount]_vars

\* C6: when POST /api/auth/register answers 201, the e-mail has an account
\* in Firebase Auth and admin/{uid} exists with the name and e-mail sent
C6_RegisteredHasProfile ==
  (resp.op = "register" /\ resp.res.status = 201) =>
     LET email == resp.body.email.str
         uid   == UidOf[email]
     IN /\ email \in accounts
        /\ Exists(admin, uid)
        /\ Get(admin[uid], "name") = JStr(Trim(resp.body.name.str))
        /\ Get(admin[uid], "email") = JStr(email)

\* C10: an operation on Firestore that met an Admin SDK that threw or was
\* not configured went on to the REST API
C10_SdkFailureFallsBackToRest ==
  ("sdk" \in DOMAIN resp /\ resp.sdk \in {"threw", "unavailable"}) =>
     resp.rest \in {"ok", "failed"}


(***************************************************************************)
(* PUT /api/products/:id on a collection of two products.                  *)
(***************************************************************************)
FrameIds == {"p1", "p2"}

FrameBodies ==
  {[name |-> JStr(" Ada ")],
   [price |-> JStr("9"), count |-> JNum(0)],
   [status |-> JStr("inactive"), popular |-> JStr("true")],
   [price |-> JStr("free")],
   EmptyObj}

InitFrame ==
  /\ products = [p \in FrameIds |-> SeedProduct]
  /\ orders = [o \in {} |-> NoDoc]
  /\ accounts = {}
  /\ admin = [u \in {} |-> NoDoc]
  /\ resp = NoResp
  /\ reqs = <<>>
  /\ page = NoPage

NextFrame ==
  \/ \E id \in FrameIds, body \in FrameBodies, sdk \in SdkModes, rest \in RestModes :
       PutProduct(id, body, sdk, rest, 8)
  \/ \E id \in FrameIds, rest \in RestModes :
       DeleteProduct(id, rest)

SpecFrame == InitFrame /\ [][NextFrame]_vars

\* C7: after a PUT /api/products/:id answered 200, every stored field of
\* the product that the body did not name keeps its value (updatedAt
\* excepted), the product has no field it lacked other than those named and
\* updatedAt, and every other product is as it was - whichever of the Admin
\* SDK and the REST API did the write
C7_PutKeepsOtherFields ==
  [][(resp'.op = "putProduct" /\ resp'.res.status = 200) =>
       LET id     == resp'.id
           named  == DOMAIN resp'.body \cup {"updatedAt"}
       IN /\ \A p \in DOMAIN products : p # id => products'[p] = products[p]
          /\ Exists(products, id) /\ Exists(products', id)
          /\ \A k \in DOMAIN products[id] \ named :
                k \in DOMAIN products'[id] /\ products'[id][k] = products[id][k]
          /\ DOMAIN products'[id] \subseteq DOMAIN products[id] \cup named]_vars

\* a PUT of the name alone went through the REST API and left the price
C7_RestPutOfNameKeptPrice ==
  /\ resp.op = "putProduct" /\ resp.res.status = 200
  /\ resp.sdk = "unavailable" /\ resp.rest = "ok"
  /\ resp.body = [name |-> JStr(" Ada ")]
  /\ products[resp.id].name = JStr("Ada")
  /\ products[resp.id].price = JNum(12)
  /\ products[resp.id].updatedAt = JDate(8)


(***************************************************************************)
(* The mapper by itself: objects of one field v whose value nests arrays   *)
(* and maps up to MaxDepth deep are encoded and decoded again, and are     *)
(* decoded from Firestore's own encoding of them.                          *)
(***************************************************************************)
MaxDepth == 2

RECURSIVE WireValues(_)
WireValues(depth) ==
  LET leaves == {JStr("a"), JNum(3), [dbl |-> 2], JBool(TRUE), JDate(5), JNull}
  IN IF depth = 0 THEN leaves
     ELSE LET inner == WireValues(depth - 1)
          IN inner \cup {[arr |-> <<>>], [obj |-> EmptyObj]}
               \cup {[arr |-> <<e>>] : e \in inner}
               \cup {[arr |-> <<e, l>>] : e \in leaves, l \in leaves}
               \cup {[obj |-> [k |-> e]] : e \in inner}

Convert(x) ==
  /\ resp' = [op   |-> "convert",
              x    |-> x,
              back |-> convertFirestoreFields(convertToFirestoreFields(x)),
              read |-> convertFirestoreFields(FirestoreFields(x))]
  /\ UNCHANGED <<products, orders, accounts, admin, reqs, page>>

InitWire ==
  /\ products = [p \in {} |-> NoDoc]
  /\ orders = [o \in {} |-> NoDoc]
  /\ accounts = {}
  /\ admin = [u \in {} |-> NoDoc]
  /\ resp = NoResp
  /\ reqs = <<>>
  /\ page = NoPage

SpecWire == InitWire /\ [][\E value \in WireValues(MaxDepth) : Convert([v |-> value])]_vars

\* C15: decoding the encoding of an object gives the object back, whatever
\* its values and their nesting, and decoding what Firestore returns for a
\* stored object never throws
C15_RoundTripIsIdentity ==
  resp.op = "convert" => (resp.back = resp.x /\ resp.read # [thrown |-> TRUE])

(***************************************************************************)
(* routes/orders.js                                                        *)
(***************************************************************************)
\* String.prototype.toLowerCase on the statuses the model stores
Lower(s) == IF s = "Delivered" THEN "delivered" ELSE IF s = "Shipped" THEN "shipped" ELSE s

\* a || b
Or(a, b) == IF Truthy(a) THEN a ELSE b

\* a + b on JavaScript numbers
Add(a, b) == IF a = NaN \/ b = NaN THEN NaN ELSE JNum(a.num + b.num)

\* the orders as the Admin SDK (docs.map) or the REST API (getCollection)
\* hands them to a handler
SdkOrders(coll) == [d \in {i \in DOMAIN coll : Exists(coll, i)} |-> SdkData(coll, d)]

\* parseFloat(order.totalAmount || order.total || order.amount || 0)
OrderTotal(order) ==
  parseFloat(Or(Or(Or(Get(order, "totalAmount"), Get(order, "total")),
                   Get(order, "amount")), JNum(0)))

\* (order.status || '').toLowerCase()
OrderStatus(order) == Lower(Or(Get(order, "status"), JStr("")).str)

RECURSIVE SumTotals(_, _)
SumTotals(list, ids) ==
  IF ids = {} THEN JNum(0)
  ELSE LET d == CHOOSE i \in ids : TRUE
       IN Add(OrderTotal(list[d]), SumTotals(list, ids \ {d}))

\* the statistics GET /api/orders/stats computes over a list of orders
StatsOver(list) ==
  LET ids       == DOMAIN list
      completed == {d \in ids : OrderStatus(list[d]) \in {"delivered", "completed", "paid"}}
      pending   == {d \in ids :
                      OrderStatus(list[d]) \in {"pending", "shipped", "processing"}}
  IN [totalOrders     |-> Cardinality(ids),
      pendingOrders   |-> Cardinality(pending),
      completedOrders |-> Cardinality(completed),
      revenue         |-> SumTotals(list, completed),
      totalCost       |-> SumTotals(list, ids)]

\* GET /api/orders/stats: when both the Admin SDK and the REST call fail the
\* inner catch leaves the zeros and the answer is still 200
orderStats(coll, sdk, rest) ==
  LET message == "Order statistics retrieved successfully" IN
  IF sdk = "ok"
  THEN Out(sendSuccess(StatsOver(SdkOrders(coll)), message, 200), coll, "ok", "unused")
  ELSE IF rest = "ok"
  THEN Out(sendSuccess(StatsOver(getCollection(coll)), message, 200), coll, SdkSeen(sdk), "ok")
  ELSE Out(sendSuccess(StatsOver(EmptyObj), message, 200), coll, SdkSeen(sdk), "failed")


\* GET /api/admin/stats: the product count, the order count and the revenue
\* of the delivered and completed orders, parseFloat(total || amount || 0)
\* of each; a read that fails on both paths leaves its zeros
adminStats(prods, coll, sdk, rest) ==
  LET list(c)   == IF sdk = "ok" THEN SdkOrders(c)
                   ELSE IF rest = "ok" THEN getCollection(c) ELSE EmptyObj
      ordersOf  == list(coll)
      total(o)  == parseFloat(Or(Or(Get(o, "total"), Get(o, "amount")), JNum(0)))
      delivered == {d \in DOMAIN ordersOf : OrderStatus(ordersOf[d]) \in {"delivered", "completed"}}
      sum[ids \in SUBSET delivered] ==
        IF ids = {} THEN JNum(0)
        ELSE LET d == CHOOSE i \in ids : TRUE
             IN Add(sum[ids \ {d}], total(ordersOf[d]))
  IN Out(sendSuccess([productCount |-> Cardinality(DOMAIN list(prods)),
                      ordersCount  |-> Cardinality(DOMAIN ordersOf),
                      revenue      |-> sum[delivered]],
                     "Statistics retrieved successfully", 200),
         coll, SdkSeen(sdk), IF sdk = "ok" THEN "unused" ELSE IF rest = "ok" THEN "ok" ELSE "failed")


\* One order as GET /api/orders and GET /api/orders/:id answer it (the
\* fields the order page computes with).  The Admin SDK branch of the list
\* ends its chain of totals with data.totalAmount
orderView(data, id, sdkList) ==
  LET totalAmount == Get(data, "totalAmount")
      rest        == Or(Or(Get(data, "total"), Get(data, "amount")), JNum(0))
  IN [id          |-> id,
      products    |-> Or(Or(Or(Get(data, "products"), Get(data, "items")),
                            Get(data, "cartItems")), [arr |-> <<>>]),
      totalAmount |-> IF totalAmount # Undefined /\ totalAmount # JNull
                      THEN (IF IsNum(totalAmount) THEN totalAmount ELSE parseFloat(totalAmount))
                      ELSE parseFloat(IF sdkList THEN Or(rest, totalAmount) ELSE rest),
      status      |-> Or(Get(data, "status"), JStr("pending")),
      createdAt   |-> Or(Get(data, "createdAt"), JNull)]

\* new Date(createdAt).getTime(), 0 for an order without createdAt
CreatedTime(view) == IF "date" \in DOMAIN view.createdAt THEN view.createdAt.date ELSE 0

\* the views of ids, newest first
RECURSIVE NewestFirst(_, _)
NewestFirst(views, ids) ==
  IF ids = {} THEN <<>>
  ELSE LET d == CHOOSE i \in ids :
                  \A j \in ids : CreatedTime(views[i]) >= CreatedTime(views[j])
       IN <<views[d]>> \o NewestFirst(views, ids \ {d})

\* GET /api/orders?status=...&startDate=...&endDate=...&limit=...
\* The Admin SDK query: where() keeps the documents whose field has the
\* value asked for, orderBy('createdAt') those that have the field.  Times
\* count half days: setHours(23, 59, 59, 999) is the day's second half
listOrders(coll, query, sdk, rest) ==
  LET message   == "Orders retrieved successfully"
      wanted    == Get(query, "status")
      startDate == Get(query, "startDate")
      endDate   == Get(query, "endDate")
      limit     == Or(parseInt(Get(query, "limit")), JNum(50)).num
      inRange(createdAt) ==
        /\ Truthy(startDate) => (Truthy(createdAt) /\ createdAt.date >= startDate.date)
        /\ Truthy(endDate) => (Truthy(createdAt) /\ createdAt.date <= endDate.date + 1)
      firstPage(list) == IF limit > 0 /\ limit < Len(list) THEN SubSeq(list, 1, limit) ELSE list
  IN IF sdk = "ok"
     THEN LET docs  == SdkOrders(coll)
              found == {d \in DOMAIN docs :
                          /\ Truthy(wanted) => Get(docs[d], "status") = wanted
                          /\ Has(docs[d], "createdAt")
                          /\ inRange(docs[d].createdAt)}
              views == [d \in found |-> orderView(docs[d], JStr(d), TRUE)]
          IN Out(sendSuccess(firstPage(NewestFirst(views, found)), message, 200),
                 coll, "ok", "unused")
     ELSE IF rest # "ok"
     THEN Out(sendError("Failed to retrieve orders", 500), coll, SdkSeen(sdk), "failed")
     ELSE LET ordersData == getCollection(coll)
              views == [d \in DOMAIN ordersData |->
                          orderView(ordersData[d], ordersData[d].id, FALSE)]
              found == {d \in DOMAIN views :
                          /\ Truthy(wanted) => views[d].status = wanted
                          /\ inRange(views[d].createdAt)}
          IN Out(sendSuccess(firstPage(NewestFirst(views, found)), message, 200),
                 coll, SdkSeen(sdk), "ok")

\* GET /api/orders/:id
getOrder(coll, id, sdk, rest) ==
  LET message == "Order retrieved successfully" IN
  IF sdk = "ok"
  THEN IF ~Exists(coll, id)
       THEN Out(sendError("Order not found", 404), coll, "ok", "unused")
       ELSE Out(sendSuccess(orderView(coll[id], JStr(id), FALSE), message, 200),
                coll, "ok", "unused")
  ELSE IF rest # "ok"
  THEN Out(sendError("Failed to retrieve order", 500), coll, SdkSeen(sdk), "failed")
  ELSE LET orderData == getDocument(coll, id) IN
       IF orderData = NoDoc
       THEN Out(sendError("Order not found", 404), coll, SdkSeen(sdk), "ok")
       ELSE Out(sendSuccess(orderView(orderData, Get(orderData, "id"), FALSE), message, 200),
                coll, SdkSeen(sdk), "ok")

\* DELETE /api/orders/:id, the REST branch (fallback and direct)
deleteOrderRest(coll, id, sdkSeen, rest) ==
  IF rest = "readFails"
  THEN Out(sendError("Failed to delete order", 500), coll, sdkSeen, "failed")
  ELSE IF getDocument(coll, id) = NoDoc
  THEN Out(sendError("Order not found", 404), coll, sdkSeen, "ok")
  ELSE IF rest = "writeFails"
  THEN Out(sendError("Failed to delete order", 500), coll, sdkSeen, "failed")
  ELSE Out(sendSuccess(JNull, "Order deleted successfully", 200),
           deleteDocument(coll, id), sdkSeen, "ok")

\* DELETE /api/orders/:id
deleteOrder(coll, id, sdk, rest) ==
  IF sdk = "unavailable" \/ sdk = "throws"
  THEN deleteOrderRest(coll, id, SdkSeen(sdk), rest)
  ELSE IF ~Exists(coll, id)
  THEN Out(sendError("Order not found", 404), coll, "ok", "unused")
  ELSE LET after == [coll EXCEPT ![id] = NoDoc]
       IN IF sdk = "throwsLate"
          THEN deleteOrderRest(after, id, "threw", rest)
          ELSE Out(sendSuccess(JNull, "Order deleted successfully", 200),
                   after, "ok", "unused")

\* PATCH /api/orders/:id/status.  status.toLowerCase() of a status that is
\* not a string throws inside the try: the catch answers 500
updateOrderStatus(coll, id, body, sdk, rest, now) ==
  LET status        == Get(body, "status")
      notes         == Get(body, "notes")
      validStatuses == {"pending", "processing", "shipped", "delivered", "completed",
                        "cancelled", "paid", "rejected"}
      failed        == sendError("Failed to update order status", 500)
      notFound      == sendError("Order not found", 404)
  IN IF ~Truthy(status)
     THEN Out(sendError("Status is required", 400), coll, "unused", "unused")
     ELSE IF ~IsStr(status)
     THEN Out(failed, coll, "unused", "unused")
     ELSE IF Lower(status.str) \notin validStatuses
     THEN Out(sendError("Invalid status. Must be one of: pending, processing, shipped, delivered, completed, cancelled, paid, rejected", 400),
              coll, "unused", "unused")
     ELSE LET updateData == Spread([status |-> JStr(Lower(status.str)), updatedAt |-> JDate(now)],
                                   IF notes # Undefined
                                   THEN [notes |-> notes, comments |-> notes] ELSE EmptyObj)
              done == sendSuccess(Spread([status |-> updateData.status],
                                         IF notes # Undefined THEN [notes |-> notes]
                                         ELSE EmptyObj),
                                  "Order status updated successfully", 200)
              viaRest(c, sdkSeen) ==
                IF rest = "readFails" THEN Out(failed, c, sdkSeen, "failed")
                ELSE IF getDocument(c, id) = NoDoc THEN Out(notFound, c, sdkSeen, "ok")
                ELSE IF rest = "writeFails" THEN Out(failed, c, sdkSeen, "failed")
                ELSE Out(done, createDocument(c, updateData, id), sdkSeen, "ok")
          IN IF sdk = "unavailable" \/ sdk = "throws"
             THEN viaRest(coll, SdkSeen(sdk))
             ELSE IF ~Exists(coll, id)
             THEN Out(notFound, coll, "ok", "unused")
             ELSE IF sdk = "throwsLate"
             THEN viaRest(SdkUpdate(coll, id, updateData), "threw")
             ELSE Out(done, SdkUpdate(coll, id, updateData), "ok", "unused")

DeleteOrder(id, sdk, rest) ==
  LET out == deleteOrder(orders, id, sdk, rest) IN
  /\ orders' = out.docs
  /\ resp' = Answer("deleteOrder", id, out)
  /\ UNCHANGED <<products, accounts, admin, reqs, page>>

UpdateOrderStatus(id, body, sdk, rest, now) ==
  LET out == updateOrderStatus(orders, id, body, sdk, rest, now) IN
  /\ orders' = out.docs
  /\ resp' = Spread(Answer("updateOrderStatus", id, out), [body |-> body])
  /\ UNCHANGED <<products, accounts, admin, reqs, page>>

GetOrder(id, sdk, rest) ==
  /\ resp' = Answer("getOrder", id, getOrder(orders, id, sdk, rest))
  /\ UNCHANGED <<products, orders, accounts, admin, reqs, page>>

ListOrders(query, sdk, rest) ==
  /\ resp' = Spread(Answer("listOrders", "", listOrders(orders, query, sdk, rest)),
                    [query |-> query])
  /\ UNCHANGED <<products, orders, accounts, admin, reqs, page>>

OrderStats(sdk, rest) ==
  /\ resp' = Answer("orderStats", "", orderStats(orders, sdk, rest))
  /\ UNCHANGED <<products, orders, accounts, admin, reqs, page>>

(***************************************************************************)
(* Order requests handled one after another.  Orders are placed by the     *)
(* storefront, not through this API: the collection starts with three.     *)
(***************************************************************************)
SeedOrders ==
  [o1 |-> [status |-> JStr("pending"), totalAmount |-> JNum(5), createdAt |-> JDate(1)],
   o2 |-> [status |-> JStr("Delivered"), total |-> JStr("3"), createdAt |-> JDate(2)],
   o3 |-> [status |-> JStr("shipped"), amount |-> JNum(2), createdAt |-> JDate(3)]]

OrderIds == DOMAIN SeedOrders

\* what reads meet: the Admin SDK answers, throws or is not configured
ReadModes == {"ok", "throws", "unavailable"}

InitOrders ==
  /\ products = [p \in {} |-> NoDoc]
  /\ orders = SeedOrders
  /\ accounts = {}
  /\ admin = [u \in {} |-> NoDoc]
  /\ resp = NoResp
  /\ reqs = <<>>
  /\ page = NoPage

NextOrders ==
  \/ \E id \in OrderIds, sdk \in SdkModes, rest \in RestModes : DeleteOrder(id, sdk, rest)
  \/ \E id \in OrderIds, sdk \in ReadModes, rest \in {"ok", "readFails"} :
       GetOrder(id, sdk, rest)
  \/ \E query \in {EmptyObj, [status |-> JStr("pending")]}, sdk \in ReadModes,
        rest \in {"ok", "readFails"} :
       ListOrders(query, sdk, rest)
  \/ \E sdk \in ReadModes, rest \in {"ok", "readFails"} : OrderStats(sdk, rest)
  \/ \E id \in OrderIds, sdk \in SdkModes, rest \in RestModes,
        body \in {EmptyObj, [status |-> JStr("Shipped")], [status |-> JStr("refunded")],
                  [status |-> JNum(5)]} :
       UpdateOrderStatus(id, body, sdk, rest, 9)

SpecOrders == InitOrders /\ [][NextOrders]_vars

\* the ids of the orders a list answer holds
ListedIds(list) == {list[i].id.str : i \in 1..Len(list)}

\* C8: a DELETE /api/orders/:id answered with success leaves no document of
\* that id and every other order as it was; a DELETE of an id without a
\* document is answered 404 (500 where the REST call failed) and removes
\* nothing; an order once gone stays gone, GET /api/orders/:id of it is
\* answered 404 (500 where the REST call failed) and no answer of
\* GET /api/orders lists it
C8_DeleteRemovesOrder ==
  [][/\ \A o \in OrderIds : ~Exists(orders, o) => ~Exists(orders', o)
     /\ (resp'.op = "deleteOrder" /\ resp'.res.success) =>
           /\ ~Exists(orders', resp'.id)
           /\ \A o \in OrderIds \ {resp'.id} : orders'[o] = orders[o]
     /\ (resp'.op = "deleteOrder" /\ ~Exists(orders, resp'.id)) =>
           /\ orders' = orders
           /\ resp'.res.status = IF resp'.rest = "failed" THEN 500 ELSE 404
     /\ (resp'.op = "getOrder" /\ ~Exists(orders, resp'.id)) =>
           resp'.res.status = IF resp'.rest = "failed" THEN 500 ELSE 404
     /\ (resp'.op = "listOrders" /\ resp'.res.success) =>
           \A o \in ListedIds(resp'.res.data) : Exists(orders, o)]_vars

\* an order deleted through the REST API is not found afterwards
C8_DeletedOrderNotFound ==
  /\ resp.op = "getOrder" /\ resp.res.status = 404 /\ resp.rest = "ok"
  /\ ~Exists(orders, resp.id)
  /\ \E o \in OrderIds : Exists(orders, o)


\* C11: a request whose Firestore access failed on the Admin SDK path (it
\* threw or is not configured) and on the REST path as well is answered with
\* HTTP 500, success = false and a message, never with a 2xx
C11_BothPathsFailedIs500 ==
  (resp.op \in {"deleteOrder", "getOrder", "listOrders", "orderStats"}
     /\ resp.sdk \in {"threw", "unavailable"} /\ resp.rest = "failed") =>
       (resp.res.status = 500 /\ ~resp.res.success /\ resp.res.message # "")

\* C12: every response body is a JSON object that has the three fields
\* success, message and data
C12_EnvelopeHasThreeFields ==
  resp.op \in {"deleteOrder", "getOrder", "listOrders", "orderStats"} =>
    {"success", "message", "data"} \subseteq DOMAIN resp.res

\* C13: PATCH /api/orders/:id/status writes only a status that, lower-cased,
\* is one of the eight, and stores it lower-cased; a missing status or any
\* other status is answered 400 and an unknown order id 404 (500 where the
\* REST call failed), and then no order document is written or created; so
\* a status that a request changed is one of the eight
C13_StatusIsEnum ==
  [][resp'.op = "updateOrderStatus" =>
       LET status == Get(resp'.body, "status")
           valid  == {"pending", "processing", "shipped", "delivered", "completed",
                      "cancelled", "paid", "rejected"}
           wanted == IsStr(status) /\ Lower(status.str) \in valid
       IN /\ ~wanted => (resp'.res.status = 400 /\ orders' = orders)
          /\ (wanted /\ ~Exists(orders, resp'.id)) =>
                /\ resp'.res.status = IF resp'.rest = "failed" THEN 500 ELSE 404
                /\ orders' = orders
          /\ resp'.res.success =>
                /\ wanted
                /\ Get(orders'[resp'.id], "status") = JStr(Lower(status.str))
          /\ \A o \in OrderIds :
                (Exists(orders', o) /\ Get(orders'[o], "status") # Get(orders[o], "status")) =>
                   (o = resp'.id /\ Get(orders'[o], "status").str \in valid)]_vars

(***************************************************************************)
(* GET /api/orders over the shapes orders were stored in: two orders, each *)
(* of one of the shapes, listed through either path.                       *)
(***************************************************************************)
OrderShapes ==
  {[status |-> JStr("pending"), totalAmount |-> JNum(5), createdAt |-> JDate(1),
    products |-> [arr |-> <<[obj |-> [name |-> JStr("Mug")]]>>]],
   [total |-> JStr("3"), createdAt |-> JDate(2), items |-> [arr |-> <<JStr("Mug")>>]],
   [status |-> JStr("Delivered"), amount |-> JNum(2), cartItems |-> [arr |-> <<JStr("Mug")>>]],
   [status |-> JStr("shipped"), totalAmount |-> JStr("n/a"), createdAt |-> JDate(3)],
   [createdAt |-> JDate(4)],
   [status |-> JStr("paid"), totalAmount |-> JNum(7), createdAt |-> JDate(5)]}

ListQueries ==
  {EmptyObj, [status |-> JStr("pending")], [limit |-> JStr("1")],
   [startDate |-> JDate(2)], [endDate |-> JDate(2)]}

InitShapes ==
  /\ products = [p \in {} |-> NoDoc]
  /\ \E first \in OrderShapes :
       \E second \in OrderShapes \ {first} : orders = [o1 |-> first, o2 |-> second]
  /\ accounts = {}
  /\ admin = [u \in {} |-> NoDoc]
  /\ resp = NoResp
  /\ reqs = <<>>
  /\ page = NoPage

SpecShapes ==
  InitShapes /\ [][\E query \in ListQueries, sdk \in ReadModes, rest \in {"ok", "readFails"} :
                     ListOrders(query, sdk, rest)]_vars

\* C14: a successful GET /api/orders without filters holds, for every stored
\* order, a record whose products are the first present of products, items
\* and cartItems (else an empty list), whose totalAmount is a finite number,
\* the first present of totalAmount, total and amount when that is a number
\* (else 0), and whose status is the stored status, 'pending' without one
C14_EveryShapeNormalized ==
  (resp.op = "listOrders" /\ resp.res.success /\ resp.query = EmptyObj) =>
    \A o \in DOMAIN orders :
      \E i \in 1..Len(resp.res.data) :
        LET view   == resp.res.data[i]
            doc    == orders[o]
            pick(keys, default) ==
              IF keys[1] \in DOMAIN doc THEN doc[keys[1]]
              ELSE IF keys[2] \in DOMAIN doc THEN doc[keys[2]]
              ELSE IF keys[3] \in DOMAIN doc THEN doc[keys[3]]
              ELSE default
            total  == pick(<<"totalAmount", "total", "amount">>, JNum(0))
        IN /\ view.id = JStr(o)
           /\ view.products = pick(<<"products", "items", "cartItems">>, [arr |-> <<>>])
           /\ IsNum(view.totalAmount)
           /\ IsNum(total) => view.totalAmount = total
           /\ view.status = pick(<<"status", "status", "status">>, JStr("pending"))

(***************************************************************************)
(* The order page of the browser client (admin-order.js): state.orders,    *)
(* state.stats, state.useFirebaseRealtime, and deleteOrder as the steps    *)
(* between its awaits.  page.orders holds the ids of state.orders.         *)
(***************************************************************************)
\* the ids of a list answer, in its order
IdsOf(list) == [i \in 1..Len(list) |-> list[i].id]

\* the documents of the listener's query where('status', '==', 'pending')
RECURSIVE SnapshotIds(_, _)
SnapshotIds(coll, ids) ==
  LET pending == {d \in ids : Exists(coll, d) /\ Get(coll[d], "status") = JStr("pending")}
  IN IF pending = {} THEN <<>>
     ELSE LET d == CHOOSE i \in pending : TRUE
          IN <<JStr(d)>> \o SnapshotIds(coll, pending \ {d})

\* deleteOrder(orderId) up to the answer of DELETE /orders/:id: api.delete
\* throws on an answer that is not ok, and the catch ends the function
PageDeleteOrder(id, sdk, rest) ==
  LET out == deleteOrder(orders, id, sdk, rest) IN
  /\ page.pc = "idle"
  /\ \E i \in 1..Len(page.orders) : page.orders[i] = JStr(id)
  /\ orders' = out.docs
  /\ resp' = Answer("deleteOrder", id, out)
  /\ page' = [page EXCEPT !.pc = IF out.res.success THEN "fetchOrders" ELSE "idle",
                          !.last = "none"]
  /\ UNCHANGED <<products, accounts, admin, reqs>>

\* await fetchOrders(): it returns at once in realtime mode; else it lists
\* the orders, and leaves state.orders empty when the request fails
PageFetchOrders(sdk, rest) ==
  LET out == listOrders(orders, EmptyObj, sdk, rest) IN
  /\ page.pc = "fetchOrders"
  /\ IF page.mode = "realtime"
     THEN /\ page' = [page EXCEPT !.pc = "fetchStats"]
          /\ UNCHANGED resp
     ELSE /\ page' = [page EXCEPT !.pc = "fetchStats",
                                  !.orders = IF out.res.success THEN IdsOf(out.res.data)
                                             ELSE <<>>]
          /\ resp' = Spread(Answer("listOrders", "", out), [query |-> EmptyObj])
  /\ UNCHANGED <<products, orders, accounts, admin, reqs>>

\* await fetchOrderStats(): state.stats becomes the data of an answer with
\* success; a request that fails (net = "fails") changes nothing
PageFetchOrderStats(sdk, rest, net) ==
  LET out == orderStats(orders, sdk, rest) IN
  /\ page.pc = "fetchStats"
  /\ IF net = "fails"
     THEN /\ page' = [page EXCEPT !.pc = "idle", !.last = "failed"]
          /\ UNCHANGED resp
     ELSE /\ page' = [page EXCEPT !.pc = "idle", !.last = "stats",
                                  !.stats = out.res.data]
          /\ resp' = Answer("orderStats", "", out)
  /\ UNCHANGED <<products, orders, accounts, admin, reqs>>

\* the realtime listener's onSnapshot callback in realtime mode
OnSnapshot ==
  /\ page.mode = "realtime"
  /\ page' = [page EXCEPT !.orders = SnapshotIds(orders, DOMAIN orders)]
  /\ UNCHANGED <<products, orders, accounts, admin, resp, reqs>>

\* the page after init() ran against the three orders, in either mode
InitPage ==
  /\ products = [p \in {} |-> NoDoc]
  /\ orders = SeedOrders
  /\ accounts = {}
  /\ admin = [u \in {} |-> NoDoc]
  /\ resp = NoResp
  /\ reqs = <<>>
  /\ \E mode \in {"api", "realtime"} :
       page = [mode   |-> mode,
               pc     |-> "idle",
               last   |-> "none",
               orders |-> IF mode = "realtime"
                          THEN SnapshotIds(SeedOrders, OrderIds)
                          ELSE IdsOf(listOrders(SeedOrders, EmptyObj, "ok", "ok").res.data),
               stats  |-> StatsOver(SdkOrders(SeedOrders))]

NextPage ==
  \/ \E id \in OrderIds, sdk \in SdkModes, rest \in RestModes : PageDeleteOrder(id, sdk, rest)
  \/ \E sdk \in ReadModes, rest \in {"ok", "readFails"} : PageFetchOrders(sdk, rest)
  \/ \E sdk \in ReadModes, rest \in {"ok", "readFails"}, net \in {"ok", "fails"} :
       PageFetchOrderStats(sdk, rest, net)
  \/ OnSnapshot

\* the awaits of deleteOrder resolve: the requests it sends are answered
SpecPage ==
  /\ InitPage
  /\ [][NextPage]_vars
  /\ WF_vars(\E sdk \in ReadModes, rest \in {"ok", "readFails"} : PageFetchOrders(sdk, rest))
  /\ WF_vars(\E sdk \in ReadModes, rest \in {"ok", "readFails"}, net \in {"ok", "fails"} :
               PageFetchOrderStats(sdk, rest, net))

\* C9: once the page has fetched the statistics again after a delete that
\* succeeded, the statistics it holds are those of the orders that remain
C9_StatsAfterDeleteAreOfRemaining ==
  (page.pc = "idle" /\ page.last = "stats") =>
     page.stats = StatsOver(SdkOrders(orders))

(***************************************************************************)
(* DELETE /api/orders/o1 (request del) and PATCH /api/orders/o1/status     *)
(* with a valid status (request upd) in flight together.  Each handler     *)
(* gives up control at every await; a request keeps the backend calls it   *)
(* made (calls) and the number of responses it sent (sent).                *)
(***************************************************************************)
\* res.status(...).json(...): the handler returns after it
Respond(req, res) == [req EXCEPT !.pc = "done", !.res = res, !.sent = @ + 1]

\* await orderRef.get(), and the test of orderDoc.exists
OrderSdkGet(r) ==
  LET req == [reqs[r] EXCEPT !.calls = Append(@, "sdk.get")] IN
  /\ reqs[r].pc = "sdkGet"
  /\ reqs' = [reqs EXCEPT ![r] =
       IF req.sdk = "throws" THEN [req EXCEPT !.pc = "restGet"]
       ELSE IF ~Exists(orders, "o1") THEN Respond(req, sendError("Order not found", 404))
       ELSE [req EXCEPT !.pc = "sdkWrite"]]
  /\ UNCHANGED <<products, orders, accounts, admin, resp, page>>

\* await orderRef.delete() / await orderRef.update(updateData): update()
\* of a document that is gone rejects, delete() does not
OrderSdkWrite(r) ==
  LET req     == [reqs[r] EXCEPT !.calls = Append(@, IF r = "del" THEN "sdk.delete"
                                                     ELSE "sdk.update")]
      missing == r = "upd" /\ ~Exists(orders, "o1")
      done    == IF r = "del" THEN sendSuccess(JNull, "Order deleted successfully", 200)
                 ELSE sendSuccess([status |-> JStr("shipped")],
                                  "Order status updated successfully", 200)
  IN /\ reqs[r].pc = "sdkWrite"
     /\ orders' = IF missing THEN orders
                  ELSE IF r = "del" THEN [orders EXCEPT !["o1"] = NoDoc]
                  ELSE SdkUpdate(orders, "o1", [status |-> JStr("shipped"),
                                                updatedAt |-> JDate(9)])
     /\ reqs' = [reqs EXCEPT ![r] =
          IF missing \/ req.sdk = "throwsLate" THEN [req EXCEPT !.pc = "restGet"]
          ELSE Respond(req, done)]
     /\ UNCHANGED <<products, accounts, admin, resp, page>>

\* OrderRestGet trying the read a second time when it failed
OrderRestGet_retry(r) ==
  LET req    == [reqs[r] EXCEPT !.calls = Append(@, "rest.get")]
      failed == sendError(IF r = "del" THEN "Failed to delete order"
                          ELSE "Failed to update order status", 500)
  IN /\ reqs[r].pc = "restGet"
     /\ reqs' = [reqs EXCEPT ![r] =
          IF req.rest = "readFails"
          THEN (IF Len(req.calls) >= 2 /\ req.calls[Len(req.calls) - 1] = "rest.get"
                THEN Respond(req, failed) ELSE req)
          ELSE IF getDocument(orders, "o1") = NoDoc
          THEN Respond(req, sendError("Order not found", 404))
          ELSE [req EXCEPT !.pc = "restWrite"]]
     /\ UNCHANGED <<products, orders, accounts, admin, resp, page>>

\* await getFirestoreDocument('orders', id, idToken), and the test of it
OrderRestGet(r) ==
  LET req    == [reqs[r] EXCEPT !.calls = Append(@, "rest.get")]
      failed == sendError(IF r = "del" THEN "Failed to delete order"
                          ELSE "Failed to update order status", 500)
  IN /\ reqs[r].pc = "restGet"
     /\ reqs' = [reqs EXCEPT ![r] =
          IF req.rest = "readFails" THEN Respond(req, failed)
          ELSE IF getDocument(orders, "o1") = NoDoc
          THEN Respond(req, sendError("Order not found", 404))
          ELSE [req EXCEPT !.pc = "restWrite"]]
     /\ UNCHANGED <<products, orders, accounts, admin, resp, page>>

\* await deleteFirestoreDocument(...) / await createFirestoreDocument(...,
\* id): the PATCH with updateMask, then the response
OrderRestWrite(r) ==
  LET req    == [reqs[r] EXCEPT !.calls = Append(@, IF r = "del" THEN "rest.delete"
                                                    ELSE "rest.patch")]
      failed == sendError(IF r = "del" THEN "Failed to delete order"
                          ELSE "Failed to update order status", 500)
      done   == IF r = "del" THEN sendSuccess(JNull, "Order deleted successfully", 200)
                ELSE sendSuccess([status |-> JStr("shipped")],
                                 "Order status updated successfully", 200)
  IN /\ reqs[r].pc = "restWrite"
     /\ orders' = IF req.rest = "writeFails" THEN orders
                  ELSE IF r = "del" THEN deleteDocument(orders, "o1")
                  ELSE createDocument(orders, [status |-> JStr("shipped"),
                                               updatedAt |-> JDate(9)], "o1")
     /\ reqs' = [reqs EXCEPT ![r] =
          Respond(req, IF req.rest = "writeFails" THEN failed ELSE done)]
     /\ UNCHANGED <<products, accounts, admin, resp, page>>

\* both requests have arrived; db is configured for both or for neither
InitRace ==
  /\ products = [p \in {} |-> NoDoc]
  /\ orders = [o1 |-> SeedOrders.o1]
  /\ accounts = {}
  /\ admin = [u \in {} |-> NoDoc]
  /\ resp = NoResp
  /\ page = NoPage
  /\ \E sdkDel \in SdkModes, sdkUpd \in SdkModes, restDel \in RestModes, restUpd \in RestModes :
       /\ (sdkDel = "unavailable") = (sdkUpd = "unavailable")
       /\ reqs = [r \in {"del", "upd"} |->
                    [pc    |-> IF sdkDel = "unavailable" THEN "restGet" ELSE "sdkGet",
                     sdk   |-> IF r = "del" THEN sdkDel ELSE sdkUpd,
                     rest  |-> IF r = "del" THEN restDel ELSE restUpd,
                     calls |-> <<>>, sent |-> 0, res |-> NoResp]]

NextRace ==
  \E r \in {"del", "upd"} :
    \/ OrderSdkGet(r)
    \/ OrderSdkWrite(r)
    \/ OrderRestGet(r)
    \/ OrderRestWrite(r)

\* every await of a handler settles
SpecRace == InitRace /\ [][NextRace]_vars /\ WF_vars(NextRace)

\* C16: a request makes each backend call of its operation (the read of the
\* order, the write) at most once through the Admin SDK and at most once
\* through REST, so at most four calls; it sends at most one response, has
\* sent exactly one when its handler has returned, and every request
\* comes to that point
C16_BoundedCallsOneResponse ==
  /\ [](\A r \in DOMAIN reqs :
          LET calls == reqs[r].calls IN
          /\ \A i, j \in DOMAIN calls : calls[i] = calls[j] => i = j
          /\ Len(calls) <= 4
          /\ reqs[r].sent = IF reqs[r].pc = "done" THEN 1 ELSE 0
          /\ (reqs[r].res # NoResp) = (reqs[r].pc = "done"))
  /\ <>(\A r \in DOMAIN reqs : reqs[r].pc = "done" /\ reqs[r].sent = 1)

\* a status update went through both paths: the Admin SDK wrote and threw,
\* the REST fallback read and wrote again
C16_BothPathsUsedOnce ==
  /\ reqs["upd"].pc = "done" /\ reqs["upd"].res.status = 200
  /\ reqs["upd"].calls = <<"sdk.get", "sdk.update", "rest.get", "rest.patch">>

\* C17: when the DELETE and the status update of the same order ran
\* together, both have finished and the DELETE was answered with success,
\* no document of that id exists
C17_DeletedOrderStaysDeleted ==
  (reqs["del"].pc = "done" /\ reqs["upd"].pc = "done" /\ reqs["del"].res.success) =>
     ~Exists(orders, "o1")

(***************************************************************************)
(* The login page (frontend/js/auth.js), the API client's request helper   *)
(* and POST /api/auth/login.  page.toast is the last message shown,        *)
(* page.token the token in localStorage.                                   *)
(***************************************************************************)
\* POST /api/auth/login.  authApi is what signInWithPassword of the
\* Identity Toolkit answers: "ok", one of its error codes, or "fails" when
\* it cannot be reached
postLogin(adminDocs, body, authApi, sdk) ==
  LET missing == validateRequiredFields(body, {"email", "password"})
      email   == Trim(body.email.str)
      localId == UidOf[email]
      name    == IF sdk = "ok" /\ Exists(adminDocs, localId) /\ Truthy(Get(adminDocs[localId], "name"))
                 THEN adminDocs[localId].name.str ELSE ""
  IN IF missing # {} THEN sendError("Missing required fields", 400)
     ELSE IF authApi = "fails"
     THEN sendError("Network error. Please check your connection.", 500)
     ELSE IF authApi \in {"INVALID_PASSWORD", "EMAIL_NOT_FOUND", "INVALID_LOGIN_CREDENTIALS"}
     THEN sendError("Invalid email or password. Please check your credentials.", 401)
     ELSE IF authApi = "USER_DISABLED" THEN sendError("User account is disabled", 403)
     ELSE IF authApi = "TOO_MANY_ATTEMPTS_TRY_LATER"
     THEN sendError("Too many failed login attempts. Please try again later.", 429)
     ELSE sendSuccess([user |-> [uid |-> localId, email |-> email, name |-> name],
                       token |-> "fbValid", refreshToken |-> "refresh"],
                      "Login successful", 200)

\* request(url, options) of the API client, given the server's response: the
\* body it returns or the message of the Error it throws, and the token it
\* leaves in localStorage
request(res, token) ==
  IF res.status = 401
  THEN [thrown |-> "Authentication failed. Please log in again.", token |-> "none"]
  ELSE IF res.status < 200 \/ res.status >= 300
  THEN [thrown |-> res.message, token |-> token]
  ELSE [data |-> res, token |-> token]

\* login(event) of the login page, with api.auth.login inside it.  The
\* Identity Toolkit accepts ("ok", or USER_DISABLED for a disabled account)
\* exactly the registered e-mail with its password
Login(body, online, authApi, sdk) ==
  LET email    == Trim(body.email.str)
      res      == postLogin(admin, [body EXCEPT !.email = JStr(email)], authApi, sdk)
      answer   == request(res, page.token)
      shown(m) == IF m \in {"Invalid email or password. Please check your credentials."}
                  THEN "Invalid email or password. Please check your credentials."
                  ELSE IF m = "Network error. Please check your connection."
                  THEN "Network error. Please check your internet connection."
                  ELSE IF m = "Authentication failed. Please log in again."
                  THEN "Authentication failed. Please try again."
                  ELSE m
  IN /\ page.mode = "login" /\ page.location = "login.html"
     /\ (body.email.str \in accounts /\ body.password.str = "secret1") =
          (authApi \in {"ok", "USER_DISABLED"})
     /\ (authApi = "EMAIL_NOT_FOUND") => body.email.str \notin accounts
     /\ (authApi = "INVALID_PASSWORD") => body.email.str \in accounts
     /\ IF ~online
        THEN /\ page' = [page EXCEPT !.toast = "Sorry, you are currently offline"]
             /\ resp' = [op |-> "login", body |-> body, sent |-> FALSE]
        ELSE IF email = "" \/ body.password.str = ""
        THEN /\ page' = [page EXCEPT !.toast = "Please fill in both email and password."]
             /\ resp' = [op |-> "login", body |-> body, sent |-> FALSE]
        ELSE /\ resp' = [op |-> "login", body |-> body, sent |-> TRUE, res |-> res,
                         authApi |-> authApi, sdk |-> sdk]
             /\ page' = IF "thrown" \in DOMAIN answer
                        THEN [page EXCEPT !.toast = shown(answer.thrown),
                                          !.token = answer.token]
                        ELSE [page EXCEPT !.toast = "Logged in!",
                                          !.token = answer.data.data.token,
                                          !.location = "admin-profile.html"]
     /\ UNCHANGED <<products, orders, accounts, admin, reqs>>

\* the login page is open; ada@x.io is registered with the password secret1
InitLogin ==
  /\ products = [p \in {} |-> NoDoc]
  /\ orders = [o \in {} |-> NoDoc]
  /\ accounts = {"ada@x.io"}
  /\ admin = [u \in {"u1", "u2"} |->
                IF u = "u1" THEN [name |-> JStr("Ada"), email |-> JStr("ada@x.io")] ELSE NoDoc]
  /\ resp = NoResp
  /\ reqs = <<>>
  /\ \E token \in {"none", "old"} :
       page = [mode |-> "login", location |-> "login.html", toast |-> "", token |-> token]

SpecLogin ==
  InitLogin /\
  [][\E email \in {"ada@x.io", "bob@x.io", "   "},
        password \in {"secret1", "secret2", "wrong", ""},
        online \in BOOLEAN, sdk \in {"ok", "throws", "unavailable"},
        authApi \in {"ok", "INVALID_PASSWORD", "EMAIL_NOT_FOUND", "INVALID_LOGIN_CREDENTIALS",
                     "USER_DISABLED", "TOO_MANY_ATTEMPTS_TRY_LATER", "fails"} :
       Login([email |-> JStr(email), password |-> JStr(password)], online, authApi, sdk)]_vars

\* C19: when POST /api/auth/login rejects the credentials, the login page
\* shows the message the server sent, the user stays on the login page and
\* no token is stored
C19_LoginShowsServerMessage ==
  (resp.op = "login" /\ resp.sent /\ resp.res.status = 401) =>
     /\ page.toast = resp.res.message
     /\ page.location = "login.html"
     /\ page.token = "none"

\* C18: for the same stored orders and the same query parameters the REST
\* fallback of GET /api/orders and the Admin SDK path return the same
\* orders in the same order
C18_RestListEqualsSdkList ==
  \A query \in ListQueries, sdk \in {"throws", "unavailable"} :
    IdsOf(listOrders(orders, query, sdk, "ok").res.data)
      = IdsOf(listOrders(orders, query, "ok", "ok").res.data)

\* C20: when the JWT-decode fallback of verifyToken decides (the Admin SDK
\* did not verify the token), the handler runs only for a token of three
\* parts whose payload has sub, email and an exp claim in the future (exp 0
\* stands for a payload without exp; requests arrive at time 10)
C20_FallbackRequiresFutureExp ==
  (resp.op = "request" /\ resp.route \in ProtectedRoutes /\ resp.ran) =>
     LET token   == SplitBearer(resp.header)
         payload == TokenInfo[token]
     IN ~(resp.authSdk = "ok" /\ verifyIdToken(token, 10)) =>
          /\ payload.parts = 3 /\ payload.json
          /\ payload.sub # "" /\ payload.email # ""
          /\ payload.exp # 0 /\ payload.exp > 10

\* C21: for the same stored orders GET /api/admin/stats and
\* GET /api/orders/stats report the same revenue, and ordersCount equals
\* totalOrders
C21_AdminRevenueEqualsOrdersRevenue ==
  LET adminData  == adminStats(products, orders, "ok", "ok").res.data
      ordersData == orderStats(orders, "ok", "ok").res.data
  IN /\ adminData.revenue = ordersData.revenue
     /\ adminData.ordersCount = ordersData.totalOrders

\* ---- the API client of the admin pages: tokenManager, request, api.auth ----

MaxInFlight == 2
MaxSent == 3

\* tokenManager.clearTokens() with the user entry left in place
clearTokens_keepsUser(store) == [store EXCEPT !.token = 0, !.refresh = 0]

\* tokenManager.clearTokens(): the token, the refresh token and the user are
\* removed from localStorage (0 is an absent entry)
clearTokens(store) == [token |-> 0, refresh |-> 0, user |-> 0]

\* api.auth.isAuthenticated()
isAuthenticated(store) == store.token # 0

\* a call of the API client starts: request() reads the stored token and
\* sends it with the request
ClientSend(kind) ==
  /\ page.mode = "client"
  /\ Len(reqs) < MaxInFlight
  /\ page.sent < MaxSent
  /\ reqs' = Append(reqs, [kind |-> kind, token |-> page.store.token])
  /\ page' = [page EXCEPT !.sent = @ + 1]
  /\ UNCHANGED <<products, orders, accounts, admin, resp>>

\* the answer to the i-th call in flight arrives (status 0: fetch failed),
\* request() handles it and the caller continues: api.get, api.auth.login,
\* api.auth.getCurrentUser, api.auth.logout or logout() of the page
ClientReceive(i, status) ==
  LET call       == reqs[i]
      answer     == IF status = 0
                    THEN [thrown |-> "Network error. Please check your internet connection."]
                    ELSE request([status |-> status, message |-> "Request failed"], "kept")
      threw      == "thrown" \in DOMAIN answer
      inRequest  == IF status = 401 THEN clearTokens(page.store) ELSE page.store
      redirected == IF status = 401 /\ page.location # "login.html"
                    THEN "login.html" ELSE page.location
      granted    == [token |-> page.issued + 1, refresh |-> page.issued + 1, user |-> 1]
      store      == CASE call.kind = "get" -> inRequest
                      [] call.kind = "login" -> IF threw THEN inRequest ELSE granted
                      [] call.kind = "me" ->
                           IF ~threw THEN [inRequest EXCEPT !.user = 1]
                           ELSE IF status = 401 THEN clearTokens(inRequest) ELSE inRequest
                      [] OTHER -> clearTokens(inRequest)
      dispatched == (IF status = 401 THEN 1 ELSE 0)
                    + (IF call.kind \in {"logout", "pageLogout"} THEN 1 ELSE 0)
  IN /\ page.mode = "client"
     /\ i \in 1..Len(reqs)
     /\ reqs' = [j \in 1..(Len(reqs) - 1) |-> IF j < i THEN reqs[j] ELSE reqs[j + 1]]
     /\ page' = [page EXCEPT
                   !.store = store,
                   !.issued = IF call.kind = "login" /\ ~threw THEN @ + 1 ELSE @,
                   !.logouts = @ + dispatched,
                   !.revoked = IF status = 401
                               THEN (@ \cup {call.token, page.store.token}) \ {0} ELSE @,
                   !.location = IF call.kind = "pageLogout" THEN "index.html" ELSE redirected,
                   !.toast = IF call.kind = "pageLogout" THEN "Logged out!" ELSE @]
     /\ resp' = [op |-> "receive", kind |-> call.kind, status |-> status,
                 carried |-> call.token,
                 thrown |-> IF threw THEN answer.thrown ELSE "",
                 rejected |-> threw /\ call.kind \in {"get", "login"},
                 store |-> store, dispatched |-> dispatched]
     /\ UNCHANGED <<products, orders, accounts, admin>>

\* an admin page is open, signed in (token 1) or not
InitClient ==
  /\ products = [p \in {} |-> NoDoc]
  /\ orders = [o \in {} |-> NoDoc]
  /\ accounts = {"ada@x.io"}
  /\ admin = [u \in {} |-> NoDoc]
  /\ resp = NoResp
  /\ reqs = <<>>
  /\ \E token \in {0, 1} :
       page = [mode |-> "client", location |-> "admin-order.html", toast |-> "",
               store |-> [token |-> token, refresh |-> token, user |-> token],
               issued |-> 1, logouts |-> 0, revoked |-> {}, sent |-> 0]

SpecClient ==
  InitClient /\
  [][\/ \E kind \in {"get", "login", "me", "logout", "pageLogout"} : ClientSend(kind)
     \/ \E i \in 1..MaxInFlight, status \in {200, 401, 500, 0} : ClientReceive(i, status)]_vars

\* C22: when request() receives a 401 the token, the refresh token and the
\* user are removed, auth:logout is dispatched, isAuthenticated() is false
\* and request() throws; a request sent afterwards never carries a token that
\* a 401 has removed
C22_UnauthorizedClearsSession ==
  [][/\ (Len(reqs') < Len(reqs) /\ resp'.status = 401) =>
          /\ page'.store = [token |-> 0, refresh |-> 0, user |-> 0]
          /\ ~isAuthenticated(page'.store)
          /\ page'.logouts > page.logouts
          /\ resp'.thrown = "Authentication failed. Please log in again."
          /\ resp'.kind \in {"get", "login"} => resp'.rejected
     /\ Len(reqs') > Len(reqs) => reqs'[Len(reqs')].token \notin page.revoked]_vars

\* a 401 removed token 1 and a request sent afterwards is in flight without it
C22_RequestAfterUnauthorized ==
  /\ page.mode = "client"
  /\ resp.op = "receive" /\ resp.status = 401 /\ resp.carried = 1
  /\ 1 \in page.revoked
  /\ reqs # <<>> /\ \A i \in 1..Len(reqs) : reqs[i].token = 0

\* C23: when api.auth.logout() or logout() of the page has finished, the
\* token, the refresh token and the user are cleared and auth:logout has been
\* dispatched exactly once, whatever the answer to POST /api/auth/logout
C23_LogoutClearsAndDispatchesOnce ==
  (page.mode = "client" /\ resp.op = "receive" /\ resp.kind \in {"logout", "pageLogout"}) =>
     /\ resp.store = [token |-> 0, refresh |-> 0, user |-> 0]
     /\ resp.dispatched = 1

\* ---- POST /api/products over valid and invalid requests ----

\* multipart bodies: the valid one, and the same with a field missing, blank,
\* out of range, not a number, or with a status and a popular flag of its own
ProductBodies ==
  {NewProduct,
   [f \in DOMAIN NewProduct \ {"category"} |-> NewProduct[f]],
   [NewProduct EXCEPT !.name = JStr("   ")],
   [NewProduct EXCEPT !.price = JStr("0")],
   [NewProduct EXCEPT !.price = JStr("-1")],
   [NewProduct EXCEPT !.price = JStr("abc")],
   [NewProduct EXCEPT !.price = JStr("12abc")],
   [NewProduct EXCEPT !.count = JStr("-1")],
   [NewProduct EXCEPT !.count = JStr("0")],
   Spread(NewProduct, [status |-> JStr("draft"), popular |-> JStr("true")])}

SpecCreate ==
  InitPopular /\
  [][\E id \in FreshIds, body \in ProductBodies, file \in {"none", "image", "other"},
        upload \in {"storage", "compressed", "fails"}, uid \in {"admin1", "admin2"},
        sdk \in SdkModes, rest \in RestModes :
       PostProduct(id, body, file, upload, uid, sdk, rest, 5)]_vars

\* C24: POST /api/products creates a product only when name, description,
\* price, count and category are present, price > 0, count >= 0 and an image
\* is attached; a request that is refused is answered 400 and creates
\* nothing; a created product has popular false, the given status or
\* 'active', and createdBy the caller's uid
C24_CreateOnlyValidElse400 ==
  resp.op = "postProduct" =>
    LET body       == resp.body
        present(f) == f \in DOMAIN body /\ Trim(body[f].str) # ""
        valid      == /\ \A f \in {"name", "description", "price", "count", "category"} : present(f)
                      /\ StrToNum(body.price.str) # NaN /\ StrToNum(body.price.str).num > 0
                      /\ StrToNum(body.count.str) # NaN /\ StrToNum(body.count.str).num >= 0
                      /\ resp.file = "image"
        created    == Exists(products, resp.id)
        refused    == ~created /\ resp.rest # "failed"
    IN /\ created => valid
       /\ created => /\ products[resp.id].popular = JBool(FALSE)
                     /\ products[resp.id].status =
                          (IF "status" \in DOMAIN body THEN body.status ELSE JStr("active"))
                     /\ products[resp.id].createdBy = JStr(resp.uid)
       /\ refused => resp.res.status = 400

\* C25: in every answer of GET /api/orders/stats pendingOrders +
\* completedOrders <= totalOrders, revenue is the sum of the totals of the
\* stored orders whose status is delivered, completed or paid, totalCost is
\* the sum of the totals of all stored orders, and revenue <= totalCost when
\* no total is negative
C25_StatsSumTheStoredOrders ==
  resp.op = "orderStats" =>
    LET list == SdkOrders(orders)
        data == resp.res.data
        done == {d \in DOMAIN list :
                   OrderStatus(list[d]) \in {"delivered", "completed", "paid"}}
    IN /\ data.pendingOrders + data.completedOrders <= data.totalOrders
       /\ data.revenue = SumTotals(list, done)
       /\ data.totalCost = SumTotals(list, DOMAIN list)
       /\ (\A d \in DOMAIN list : OrderTotal(list[d]) # NaN /\ OrderTotal(list[d]).num >= 0)
            => data.revenue.num <= data.totalCost.num

\* ---- the order page's realtime listener next to its API fetches ----

MaxFetches == 2

\* normalizeOrder(order): the id and the status of the entry in state.orders
normalizeOrder(order) ==
  [id     |-> Or(Or(Get(order, "id"), Get(order, "docId")), JStr("")),
   status |-> Lower(Or(Get(order, "status"), JStr("pending")).str)]

\* setupFirebaseRealtimeListener() that subscribes without unsubscribing first
setupFirebaseRealtimeListener_keepsPrevious(st) ==
  [st EXCEPT !.live = @ \cup {st.made + 1}, !.firebaseUnsubscribe = st.made + 1,
             !.made = @ + 1]

\* setupFirebaseRealtimeListener() with Firestore loaded: the previous
\* listener is unsubscribed, then onSnapshot subscribes a new one and its
\* unsubscribe function is kept.  live: the listeners Firestore still serves
setupFirebaseRealtimeListener(st) ==
  [st EXCEPT !.live = (IF st.firebaseUnsubscribe # 0 THEN @ \ {st.firebaseUnsubscribe} ELSE @)
                        \cup {st.made + 1},
             !.firebaseUnsubscribe = st.made + 1,
             !.made = @ + 1]

\* stopFirebaseRealtimeListener()
stopFirebaseRealtimeListener(st) ==
  IF st.firebaseUnsubscribe # 0
  THEN [st EXCEPT !.live = @ \ {st.firebaseUnsubscribe}, !.firebaseUnsubscribe = 0]
  ELSE st

\* the status filter is changed: state.filters.status is set and
\* fetchOrders() called, which returns at once in realtime-only mode and
\* else sends the filter along
RtFilter(status) ==
  /\ page.mode = "order page"
  /\ page.sent < MaxFetches
  /\ reqs' = IF page.useFirebaseRealtime THEN reqs
             ELSE Append(reqs, [from |-> "filter", fetched |-> FALSE, status |-> status])
  /\ page' = [page EXCEPT !.sent = @ + 1, !.last = "filter", !.filter = status]
  /\ UNCHANGED <<products, orders, accounts, admin, resp>>

\* a click on the refresh button: fetchOrderStats() and fetchOrders() start
RtRefresh ==
  /\ page.mode = "order page"
  /\ page.sent < MaxFetches
  /\ reqs' = Append(reqs, [from |-> "refresh", fetched |-> page.useFirebaseRealtime,
                            status |-> page.filter])
  /\ page' = [page EXCEPT !.sent = @ + 1, !.last = "refresh"]
  /\ UNCHANGED <<products, orders, accounts, admin, resp>>

\* GET /orders of the i-th fetchOrders() in flight is answered: state.orders
\* becomes the normalized list, or the empty list when the request failed
RtAnswer(i, sdk, rest) ==
  /\ page.mode = "order page"
  /\ i \in 1..Len(reqs) /\ ~reqs[i].fetched
  /\ reqs' = IF reqs[i].from = "refresh"
             THEN [reqs EXCEPT ![i].fetched = TRUE]
             ELSE [j \in 1..(Len(reqs) - 1) |-> IF j < i THEN reqs[j] ELSE reqs[j + 1]]
  /\ \E query \in {IF reqs[i].status = "" THEN EmptyObj ELSE [status |-> JStr(reqs[i].status)]} :
     \E out \in {listOrders(orders, query, sdk, rest)} :
     \E list \in {IF out.res.success
                  THEN [k \in 1..Len(out.res.data) |-> normalizeOrder(out.res.data[k])]
                  ELSE <<>>} :
       /\ page' = [page EXCEPT !.orders = list, !.last = "answer",
                               !.fallback = IF reqs[i].from = "error" THEN "done" ELSE @]
       /\ resp' = Spread(Answer("listOrders", "", out), [query |-> query])
  /\ UNCHANGED <<products, orders, accounts, admin>>

\* the refresh handler after its Promise.all: the listener is set up again
\* if state.firebaseUnsubscribe is set
RtRestart(i) ==
  /\ page.mode = "order page"
  /\ i \in 1..Len(reqs) /\ reqs[i].from = "refresh" /\ reqs[i].fetched
  /\ reqs' = [j \in 1..(Len(reqs) - 1) |-> IF j < i THEN reqs[j] ELSE reqs[j + 1]]
  /\ page' = [(IF page.firebaseUnsubscribe # 0
               THEN setupFirebaseRealtimeListener(page) ELSE page)
              EXCEPT !.last = "restart"]
  /\ UNCHANGED <<products, orders, accounts, admin, resp>>

\* the snapshot callback that appends every order of the snapshot
RtSnapshot_appendsAll(l) ==
  LET ids            == SnapshotIds(orders, DOMAIN orders)
      firebaseOrders == [k \in 1..Len(ids) |->
                           normalizeOrder(Spread([id |-> ids[k], docId |-> ids[k]],
                                                 orders[ids[k].str]))]
  IN /\ page.mode = "order page" /\ l \in page.live
     /\ page' = [page EXCEPT !.orders = IF page.useFirebaseRealtime THEN firebaseOrders
                                        ELSE @ \o firebaseOrders,
                             !.last = "snapshot"]
     /\ UNCHANGED <<products, orders, accounts, admin, resp, reqs>>

\* listener l delivers the pending orders to the snapshot callback: in
\* realtime-only mode they replace state.orders, else those whose id is not
\* in state.orders are appended
RtSnapshot(l) ==
  LET ids            == SnapshotIds(orders, DOMAIN orders)
      firebaseOrders == [k \in 1..Len(ids) |->
                           normalizeOrder(Spread([id |-> ids[k], docId |-> ids[k]],
                                                 orders[ids[k].str]))]
      existingIds    == {page.orders[k].id : k \in 1..Len(page.orders)}
      newOrders      == SelectSeq(firebaseOrders, LAMBDA o : o.id \notin existingIds)
  IN /\ page.mode = "order page" /\ l \in page.live
     /\ page' = [page EXCEPT !.orders = IF page.useFirebaseRealtime THEN firebaseOrders
                                        ELSE @ \o newOrders,
                             !.last = "snapshot"]
     /\ UNCHANGED <<products, orders, accounts, admin, resp, reqs>>

\* the error callback that leaves realtime-only mode without fetching
RtError_noFetch(l) ==
  /\ page.mode = "order page" /\ l \in page.live
  /\ page' = [page EXCEPT !.live = @ \ {l}, !.last = "error", !.useFirebaseRealtime = FALSE,
                          !.fallback = IF page.useFirebaseRealtime THEN "pending" ELSE @]
  /\ UNCHANGED <<products, orders, accounts, admin, resp, reqs>>

\* listener l fails: Firestore ends it and calls the error callback, which in
\* realtime-only mode clears useFirebaseRealtime and calls fetchOrders()
RtError(l) ==
  /\ page.mode = "order page" /\ l \in page.live
  /\ page' = [page EXCEPT !.live = @ \ {l}, !.last = "error", !.useFirebaseRealtime = FALSE,
                          !.fallback = IF page.useFirebaseRealtime THEN "pending" ELSE @]
  /\ reqs' = IF page.useFirebaseRealtime
             THEN Append(reqs, [from |-> "error", fetched |-> FALSE, status |-> page.filter])
             ELSE reqs
  /\ UNCHANGED <<products, orders, accounts, admin, resp>>

\* beforeunload
RtUnload ==
  /\ page.mode = "order page" /\ ~page.stopped
  /\ page' = [stopFirebaseRealtimeListener(page) EXCEPT !.stopped = TRUE, !.last = "unload"]
  /\ UNCHANGED <<products, orders, accounts, admin, resp, reqs>>

\* the page when init() reaches its first await: with ?realtime=true, as a
\* supplement to the API, or without Firestore; fetchOrders() of init is in
\* flight unless realtime-only mode skipped it
InitRealtime ==
  /\ products = [p \in {} |-> NoDoc]
  /\ orders = SeedOrders
  /\ accounts = {}
  /\ admin = [u \in {} |-> NoDoc]
  /\ resp = NoResp
  /\ \E start \in {"realtime", "supplement", "none"} :
       /\ page = [mode |-> "order page", useFirebaseRealtime |-> start = "realtime",
                  firebaseUnsubscribe |-> IF start = "none" THEN 0 ELSE 1,
                  live |-> IF start = "none" THEN {} ELSE {1},
                  made |-> IF start = "none" THEN 0 ELSE 1,
                  orders |-> <<>>, filter |-> "", sent |-> 0, last |-> "init",
                  fallback |-> "no",
                  stopped |-> FALSE]
       /\ reqs = IF start = "realtime" THEN <<>>
                 ELSE <<[from |-> "init", fetched |-> FALSE, status |-> ""]>>

\* an order becomes pending meanwhile; the requests the page sends are
\* answered, by the Admin SDK path or, without it, with the REST read failing
SpecRealtime ==
  /\ InitRealtime
  /\ [][\/ \E status \in {"", "shipped"} : RtFilter(status)
        \/ RtRefresh
        \/ \E i \in 1..(MaxFetches + 2), sdk \in {"ok", "unavailable"} :
             RtAnswer(i, sdk, "readFails")
        \/ \E i \in 1..(MaxFetches + 2) : RtRestart(i)
        \/ \E l \in 1..(MaxFetches + 1) : RtSnapshot(l)
        \/ \E l \in 1..(MaxFetches + 1) : RtError(l)
        \/ RtUnload
        \/ UpdateOrderStatus("o3", [status |-> JStr("pending")], "ok", "ok", 9)]_vars
  /\ WF_vars(\E i \in 1..(MaxFetches + 2) :
               RtAnswer(i, "unavailable", "readFails") \/ RtAnswer(i, "ok", "readFails"))

\* C26: at most one realtime listener is active at any time, and after
\* stopFirebaseRealtimeListener() none is and state.firebaseUnsubscribe is null
C26_AtMostOneListener ==
  page.mode = "order page" =>
    /\ Cardinality(page.live) <= 1
    /\ page.live \subseteq {page.firebaseUnsubscribe}
    /\ page.stopped => (page.live = {} /\ page.firebaseUnsubscribe = 0)

\* the refresh handler has replaced the listener of init by a second one
C26_ListenerRestarted ==
  page.mode = "order page" /\ page.last = "restart" /\ page.made = 2 /\ page.live = {2}

\* C27: after the listener's error in realtime-only mode useFirebaseRealtime
\* is false for good, fetchOrders() is in flight until it is answered, and
\* its answer replaces state.orders by the API's list, or by the empty list
\* when the request failed
C27_ErrorFallsBackToApi ==
  /\ [](page.fallback # "no" => ~page.useFirebaseRealtime)
  /\ [](page.fallback = "pending" =>
          \E i \in 1..Len(reqs) : reqs[i].from = "error" /\ ~reqs[i].fetched)
  /\ [][(page.fallback = "pending" /\ page'.fallback = "done") =>
          page'.orders =
            (IF resp'.res.success
             THEN [k \in 1..Len(resp'.res.data) |-> normalizeOrder(resp'.res.data[k])]
             ELSE <<>>)]_vars
  /\ (page.fallback = "pending" ~> page.fallback = "done")

\* the API's answer has replaced the orders the listener had delivered
C27_FallbackAnswered ==
  /\ page.mode = "order page" /\ page.fallback = "done" /\ page.last = "answer"
  /\ resp.res.success /\ Len(page.orders) = 3

\* C28: in supplement mode a snapshot only appends to state.orders, and
\* state.orders never holds two entries with one id
C28_SnapshotOnlyAdds ==
  /\ [][(page'.last = "snapshot" /\ ~page.useFirebaseRealtime) =>
          /\ Len(page'.orders) >= Len(page.orders)
          /\ SubSeq(page'.orders, 1, Len(page.orders)) = page.orders]_vars
  /\ [](\A i, j \in 1..Len(page.orders) :
          page.orders[i].id = page.orders[j].id => i = j)

\* a snapshot in supplement mode has added a pending order behind the API's
\* and has left alone an entry whose order has become pending since
C28_SnapshotMerged ==
  /\ page.mode = "order page" /\ page.last = "snapshot" /\ ~page.useFirebaseRealtime
  /\ \E i, j \in 1..Len(page.orders) :
       /\ i < j
       /\ page.orders[i].id = JStr("o3") /\ page.orders[i].status = "shipped"
       /\ orders["o3"].status = JStr("pending")
       /\ page.orders[j].status = "pending"

====
